---- MODULE Spec2Model ----
(***************************************************************************)
(* A model of django-safe-migrations: the per-operation rules, the         *)
(* configuration resolver (conf.py), the baseline matcher (baseline.py)    *)
(* and the migration analyzer (analyzer.py).                               *)
(*                                                                         *)
(* Python values are modelled as follows.  None is the string "None".  A   *)
(* Django field is a record of the attributes the rules read with          *)
(* getattr; an attribute a field class does not have is "absent".  A       *)
(* max_length of None is 0 (Django requires a positive max_length).  Where *)
(* Python has None in place of an object (an issue, a field), the model    *)
(* has the record NoneRec.  Line numbers are 1-based, and a line number    *)
(* of None is 0.  A field object whose attribute has a type Django does    *)
(* not give it carries the name of that attribute in an extra attribute    *)
(* "unusual".  A call that raises has the value Raised(exception).         *)
(***************************************************************************)
EXTENDS Integers, Sequences, FiniteSets, TLC

VARIABLES
    operation,      \* rules: the operation handed to a rule's check
    old_field,      \* rules: the old_field keyword argument, or NoneRec
    checked,        \* rules: NoneRec, or [rule_id, issue] after one check
    settings,       \* settings.SAFE_MIGRATIONS merged over DEFAULTS
    issues,         \* the issue list of a run
    baseline_file,  \* baseline: the JSON document at the baseline path
    baseline,       \* baseline: the entries load_baseline returned
    filtered,       \* baseline: what filter_baselined_issues returned
    bpc,            \* baseline: [at, origin], the position of the workflow
    disk,           \* analyzer: loader.disk_migrations, in dict order
    applied,        \* analyzer: the keys MigrationRecorder reports applied
    analyzer,       \* analyzer: the MigrationAnalyzer object, or NoneRec
    run,            \* analyzer: the position of the running entry point
    calls,          \* analyzer: the rule.check calls made so far
    lookups,        \* analyzer: the _is_rule_disabled calls made so far
    analysed,       \* analyzer: the keys analyze_migration was entered for
    review,         \* interactive: the position of the interactive review
    cmd             \* command: the options and position of the command

rulesVars == <<operation, old_field, checked>>

baseVars == <<issues, baseline_file, baseline, filtered, bpc>>

anVars == <<disk, applied, analyzer, run, calls, lookups, analysed>>

cmdVars == <<review, cmd>>

vars ==
    <<operation, old_field, checked, settings, issues, baseline_file,
      baseline, filtered, bpc, disk, applied, analyzer, run, calls,
      lookups, analysed, review, cmd>>

None == "None"

NoneRec == [none |-> TRUE]

NOT_PROVIDED == "NOT_PROVIDED"

\* Largest max_length of a CharField in the model.
MaxLen == 2

----------------------------------------------------------------------------
(* Fields and operations                                                   *)

FieldClasses ==
    {"CharField", "TextField", "BooleanField", "IntegerField", "AutoField",
     "ForeignKey"}

DefaultValues == {NOT_PROVIDED, "d1", "d2"}

\* The attributes a field class carries: only relation fields have
\* db_constraint, only a CharField is given a max_length.
FieldShapeOK(f) ==
    /\ (f.db_constraint # "absent") <=> (f.cls = "ForeignKey")
    /\ (f.max_length # 0) => (f.cls = "CharField")

Fields ==
    { f \in [cls : FieldClasses, null : BOOLEAN, default : DefaultValues,
             db_default : {NOT_PROVIDED, "dbd"}, primary_key : BOOLEAN,
             unique : BOOLEAN, db_constraint : {"absent", "True", "False"},
             max_length : 0..MaxLen] : FieldShapeOK(f) }

\* The fields a column can have had before an AlterField.
OldFields ==
    { f \in Fields : f.db_default = NOT_PROVIDED /\ ~f.primary_key
                     /\ f.db_constraint # "False" }

NoField == [cls |-> "NoField"]

Op(kind, model_name, name, field) ==
    [kind |-> kind, model_name |-> model_name, name |-> name, field |-> field]

\* The migration a rule is handed: the rules read its app_label and name.
Mig(app_label, name) == [app_label |-> app_label, name |-> name]

Severities == {"error", "warning", "info"}

\* The field object has the attribute attr with a value of unexpected type:
\* a max_length that is a str, a has_default that is not callable.
Unusual(field, attr) == "unusual" \in DOMAIN field /\ field.unusual = attr

Raised(exception) == [raised |-> exception]

IsRaised(result) == "raised" \in DOMAIN result

----------------------------------------------------------------------------
(* utils.py and rules/base.py                                              *)

\* f"{op_type}({model_name}.{name})", f"{op_type}({model_name})",
\* f"{op_type}({name})" or op_type, by the attributes the operation has.
format_operation_name(op) ==
    IF "model_name" \in DOMAIN op /\ "name" \in DOMAIN op
    THEN op.kind \o "(" \o op.model_name \o "." \o op.name \o ")"
    ELSE IF "model_name" \in DOMAIN op
    THEN op.kind \o "(" \o op.model_name \o ")"
    ELSE IF "name" \in DOMAIN op
    THEN op.kind \o "(" \o op.name \o ")"
    ELSE op.kind

\* BaseRule.create_issue: the issue of rule rule_id at its class severity.
create_issue(rule_id, severity, op, message, migration) ==
    [rule_id |-> rule_id, severity |-> severity,
     operation |-> format_operation_name(op), message |-> message,
     app_label |-> migration.app_label, migration_name |-> migration.name,
     file_path |-> None, line_number |-> 0]

----------------------------------------------------------------------------
(* rules/add_field.py                                                      *)

SM001_NullDefaultIgnored(op, migration) ==
    IF op.kind # "AddField" THEN NoneRec
    ELSE LET field == op.field
             has_default == field.default # NOT_PROVIDED
                            \/ field.db_default # NOT_PROVIDED
             is_auto == field.primary_key
                        \/ field.cls \in {"AutoField", "BigAutoField",
                                          "SmallAutoField"}
             is_relation_no_constraint == field.db_constraint = "False"
         IN  IF ~has_default /\ ~is_auto /\ ~is_relation_no_constraint
             THEN create_issue("SM001", "error", op, "not-null-no-default",
                               migration)
             ELSE NoneRec

NotNullWithoutDefaultRule_check(op, migration) ==
    IF op.kind # "AddField" THEN NoneRec
    ELSE LET field == op.field
             is_not_null == ~field.null
             has_default == field.default # NOT_PROVIDED
                            \/ field.db_default # NOT_PROVIDED
             is_auto == field.primary_key
                        \/ field.cls \in {"AutoField", "BigAutoField",
                                          "SmallAutoField"}
             is_relation_no_constraint ==
                 field.db_constraint # "absent" /\ field.db_constraint # "True"
         IN  IF field.default = NOT_PROVIDED /\ Unusual(field, "has_default")
             THEN Raised("TypeError")
             ELSE IF is_not_null /\ ~has_default /\ ~is_auto
                     /\ ~is_relation_no_constraint
             THEN create_issue("SM001", "error", op, "not-null-no-default",
                               migration)
             ELSE NoneRec

----------------------------------------------------------------------------
(* rules/alter_field.py                                                    *)

AlterColumnTypeRule_is_safe_change_with_old_field(old, new) ==
    IF old.cls # new.cls THEN FALSE
    ELSE IF old.null # new.null /\ new.null THEN TRUE
    ELSE IF old.default # new.default
            /\ old.null = new.null /\ old.max_length = new.max_length
            /\ old.unique = new.unique THEN TRUE
    ELSE old.null = new.null /\ old.max_length = new.max_length
         /\ old.unique = new.unique

AlterColumnTypeRule_is_likely_safe_change(field) ==
    \/ field.cls \in {"BooleanField", "NullBooleanField"}
    \/ field.cls = "TextField"
    \/ field.null

AlterColumnTypeRule_check(op, migration, old) ==
    IF op.kind # "AlterField" THEN NoneRec
    ELSE IF old # NoneRec
            /\ AlterColumnTypeRule_is_safe_change_with_old_field(old, op.field)
         THEN NoneRec
    ELSE IF old = NoneRec /\ AlterColumnTypeRule_is_likely_safe_change(op.field)
         THEN NoneRec
    ELSE create_issue("SM004", "warning", op, "may-rewrite", migration)

AddForeignKeyValidatesRule_check(op, migration) ==
    IF op.kind # "AddField" THEN NoneRec
    ELSE IF op.field.cls \notin {"ForeignKey", "OneToOneField"} THEN NoneRec
    ELSE IF op.field.db_constraint = "False" THEN NoneRec
    ELSE create_issue("SM005", "warning", op, "fk-validates", migration)

SM013_ReportsUnchangedLength(op, migration, old) ==
    IF op.kind # "AlterField" THEN NoneRec
    ELSE IF op.field.cls # "CharField" THEN NoneRec
    ELSE IF op.field.max_length = 0 THEN NoneRec
    ELSE IF old # NoneRec /\ old.cls # "CharField" THEN NoneRec
    ELSE IF old # NoneRec /\ old.max_length # 0
         THEN IF op.field.max_length > old.max_length THEN NoneRec
              ELSE create_issue("SM013", "warning", op, "length-decreased",
                                migration)
    ELSE create_issue("SM013", "warning", op, "length-maybe-decreased",
                      migration)

AlterVarcharLengthRule_check(op, migration, old) ==
    IF op.kind # "AlterField" THEN NoneRec
    ELSE IF op.field.cls # "CharField" THEN NoneRec
    ELSE IF op.field.max_length = 0 THEN NoneRec
    ELSE IF old # NoneRec /\ old.cls # "CharField" THEN NoneRec
    ELSE IF old # NoneRec /\ old.max_length # 0
         THEN IF Unusual(op.field, "max_length") # Unusual(old, "max_length")
              THEN Raised("TypeError")
              ELSE IF op.field.max_length >= old.max_length THEN NoneRec
              ELSE create_issue("SM013", "warning", op, "length-decreased",
                                migration)
    ELSE create_issue("SM013", "warning", op, "length-maybe-decreased",
                      migration)

SM020_SkipsWithoutOldField(op, migration, old) ==
    IF op.kind # "AlterField" THEN NoneRec
    ELSE IF op.field.null THEN NoneRec
    ELSE IF old = NoneRec THEN NoneRec
    ELSE IF ~old.null THEN NoneRec
    ELSE create_issue("SM020", "error", op, "sets-null-false", migration)

AlterFieldNullFalseRule_check(op, migration, old) ==
    IF op.kind # "AlterField" THEN NoneRec
    ELSE IF op.field.null THEN NoneRec
    ELSE IF old # NoneRec /\ ~old.null THEN NoneRec
    ELSE create_issue("SM020", "error", op, "sets-null-false", migration)

AlterFieldUniqueRule_check(op, migration, old) ==
    IF op.kind # "AlterField" THEN NoneRec
    ELSE IF ~op.field.unique THEN NoneRec
    ELSE IF old # NoneRec /\ old.unique THEN NoneRec
    ELSE create_issue("SM021", "error", op, "adds-unique", migration)

DropNotNullRule_check(op, migration, old) ==
    IF op.kind # "AlterField" THEN NoneRec
    ELSE IF ~op.field.null THEN NoneRec
    ELSE IF old # NoneRec /\ old.null THEN NoneRec
    ELSE IF old = NoneRec THEN NoneRec
    ELSE create_issue("SM029", "warning", op, "drops-not-null", migration)

\* rule.check(operation=..., migration=..., old_field=...) of the rule class
\* with the given rule_id.
RuleCheck(rule_id, op, migration, old) ==
    CASE rule_id = "SM001" -> NotNullWithoutDefaultRule_check(op, migration)
      [] rule_id = "SM004" -> AlterColumnTypeRule_check(op, migration, old)
      [] rule_id = "SM005" -> AddForeignKeyValidatesRule_check(op, migration)
      [] rule_id = "SM013" -> AlterVarcharLengthRule_check(op, migration, old)
      [] rule_id = "SM020" -> AlterFieldNullFalseRule_check(op, migration, old)
      [] rule_id = "SM021" -> AlterFieldUniqueRule_check(op, migration, old)
      [] rule_id = "SM029" -> DropNotNullRule_check(op, migration, old)

\* The rules that read the old_field keyword argument.
PriorStateRules == {"SM004", "SM013", "SM020", "SM021", "SM029"}

----------------------------------------------------------------------------
(* conf.py                                                                 *)

RULE_CATEGORIES ==
    [c \in {"postgresql", "mysql", "sqlite", "indexes", "constraints",
            "destructive", "locking", "data-loss", "reversibility",
            "data-migrations", "high-risk", "informational", "naming",
            "schema-changes"} |->
        CASE c = "postgresql" ->
                 {"SM005", "SM010", "SM011", "SM012", "SM013", "SM018"}
          [] c = "mysql" -> {}
          [] c = "sqlite" -> {}
          [] c = "indexes" -> {"SM010", "SM011", "SM018"}
          [] c = "constraints" -> {"SM009", "SM011", "SM015", "SM017"}
          [] c = "destructive" -> {"SM002", "SM003", "SM009"}
          [] c = "locking" -> {"SM004", "SM005", "SM010", "SM011", "SM013"}
          [] c = "data-loss" -> {"SM002", "SM003", "SM009"}
          [] c = "reversibility" -> {"SM007", "SM016", "SM017"}
          [] c = "data-migrations" -> {"SM007", "SM008", "SM016", "SM017"}
          [] c = "high-risk" ->
                 {"SM001", "SM002", "SM003", "SM010", "SM011", "SM018"}
          [] c = "informational" -> {"SM006", "SM014", "SM019"}
          [] c = "naming" -> {"SM019"}
          [] c = "schema-changes" ->
                 {"SM001", "SM002", "SM003", "SM004", "SM006", "SM013",
                  "SM014"}]

\* The rule ids, category names and app labels that configurations mention.
ConfRules == {"SM001", "SM004"}

ConfCategories == {"high-risk", "locking", "no-such-category"}

ConfApps == {"testapp"}

\* A RULE_SEVERITY dict is a function on ConfRules; Unset marks a rule id
\* that is not a key of the dict.
Unset == "unset"

NoSeverities == [r \in ConfRules |-> Unset]

\* An empty per-app dict: what APP_RULES.get(app_label, {}) returns for an
\* app that is not configured.
EmptyAppConfig ==
    [DISABLED_RULES |-> {}, ENABLED_CATEGORIES |-> {},
     DISABLED_CATEGORIES |-> {}, RULE_SEVERITY |-> NoSeverities]

DEFAULTS ==
    [DISABLED_RULES |-> {}, DISABLED_CATEGORIES |-> {},
     ENABLED_CATEGORIES |-> {}, RULE_SEVERITY |-> NoSeverities,
     EXCLUDED_APPS |-> {"admin", "auth", "contenttypes", "sessions",
                        "messages", "staticfiles"},
     APP_RULES |-> [a \in ConfApps |-> EmptyAppConfig]]

get_config(st) == st

get_disabled_rules(st) == get_config(st).DISABLED_RULES

is_rule_disabled(st, rule_id) == rule_id \in get_disabled_rules(st)

get_rules_in_category(category) ==
    IF category \in DOMAIN RULE_CATEGORIES THEN RULE_CATEGORIES[category]
    ELSE {}

get_rules_from_categories(categories) ==
    UNION { get_rules_in_category(c) : c \in categories }

ByCategory_WhitelistWins(st, rule_id) ==
    LET enabled_categories == get_config(st).ENABLED_CATEGORIES
        disabled_categories == get_config(st).DISABLED_CATEGORIES
    IN  IF enabled_categories # {}
        THEN rule_id \notin get_rules_from_categories(enabled_categories)
        ELSE disabled_categories # {}
             /\ rule_id \in get_rules_from_categories(disabled_categories)

is_rule_disabled_by_category(st, rule_id) ==
    LET enabled_categories == get_config(st).ENABLED_CATEGORIES
        disabled_categories == get_config(st).DISABLED_CATEGORIES
    IN  IF enabled_categories # {}
           /\ rule_id \notin get_rules_from_categories(enabled_categories)
        THEN TRUE
        ELSE disabled_categories # {}
             /\ rule_id \in get_rules_from_categories(disabled_categories)

is_rule_enabled(st, rule_id) ==
    IF is_rule_disabled(st, rule_id) THEN FALSE
    ELSE IF is_rule_disabled_by_category(st, rule_id) THEN FALSE
    ELSE TRUE

get_app_config(st, app_label) ==
    IF app_label \in DOMAIN get_config(st).APP_RULES
    THEN get_config(st).APP_RULES[app_label]
    ELSE EmptyAppConfig

EnabledForApp_AppDecides(st, rule_id, app_label) ==
    IF app_label = None THEN is_rule_enabled(st, rule_id)
    ELSE LET app_config == get_app_config(st, app_label)
         IN  IF app_config = EmptyAppConfig THEN is_rule_enabled(st, rule_id)
             ELSE IF rule_id \in app_config.DISABLED_RULES THEN FALSE
             ELSE IF app_config.ENABLED_CATEGORIES # {}
                     /\ rule_id \notin get_rules_from_categories(
                                           app_config.ENABLED_CATEGORIES)
                  THEN FALSE
             ELSE IF app_config.DISABLED_CATEGORIES # {}
                     /\ rule_id \in get_rules_from_categories(
                                        app_config.DISABLED_CATEGORIES)
                  THEN FALSE
             ELSE TRUE

is_rule_enabled_for_app(st, rule_id, app_label) ==
    IF app_label = None THEN is_rule_enabled(st, rule_id)
    ELSE LET app_config == get_app_config(st, app_label)
         IN  IF app_config = EmptyAppConfig THEN is_rule_enabled(st, rule_id)
             ELSE IF rule_id \in app_config.DISABLED_RULES THEN FALSE
             ELSE IF app_config.ENABLED_CATEGORIES # {}
                     /\ rule_id \notin get_rules_from_categories(
                                           app_config.ENABLED_CATEGORIES)
                  THEN FALSE
             ELSE IF app_config.DISABLED_CATEGORIES # {}
                     /\ rule_id \in get_rules_from_categories(
                                        app_config.DISABLED_CATEGORIES)
                  THEN FALSE
             ELSE is_rule_enabled(st, rule_id)

----------------------------------------------------------------------------
(* SpecConf: the configuration source edits SAFE_MIGRATIONS one entry at a *)
(* time, starting from the defaults                                        *)

RulesIdle ==
    /\ operation = Op("RemoveField", "user", "email", NoField)
    /\ old_field = NoneRec
    /\ checked = NoneRec

BaselineIdle ==
    /\ issues = <<>>
    /\ baseline_file = [version |-> 0]
    /\ baseline = <<>>
    /\ filtered = <<>>
    /\ bpc = [at |-> "start", origin |-> "none"]

CommandIdle ==
    /\ review = [pc |-> "idle"]
    /\ cmd = [pc |-> "idle"]

AnalyzerIdle ==
    /\ disk = <<>>
    /\ applied = {}
    /\ analyzer = NoneRec
    /\ run = [pc |-> "idle"]
    /\ calls = {}
    /\ lookups = {}
    /\ analysed = <<>>

InitConf ==
    /\ CommandIdle
    /\ settings = DEFAULTS
    /\ RulesIdle
    /\ BaselineIdle
    /\ AnalyzerIdle

\* SAFE_MIGRATIONS[key].append(entry)
AddGlobal(key, entry) ==
    /\ entry \notin settings[key]
    /\ settings' = [settings EXCEPT ![key] = @ \cup {entry}]
    /\ UNCHANGED cmdVars
    /\ UNCHANGED <<rulesVars, baseVars, anVars>>

\* SAFE_MIGRATIONS["APP_RULES"][app][key].append(entry)
AddForApp(app, key, entry) ==
    /\ entry \notin settings.APP_RULES[app][key]
    /\ settings' = [settings EXCEPT !.APP_RULES[app][key] = @ \cup {entry}]
    /\ UNCHANGED cmdVars
    /\ UNCHANGED <<rulesVars, baseVars, anVars>>

NextConf ==
    \/ \E r \in ConfRules : AddGlobal("DISABLED_RULES", r)
    \/ \E c \in ConfCategories : AddGlobal("DISABLED_CATEGORIES", c)
    \/ \E c \in ConfCategories : AddGlobal("ENABLED_CATEGORIES", c)
    \/ \E a \in ConfApps, r \in ConfRules : AddForApp(a, "DISABLED_RULES", r)
    \/ \E a \in ConfApps, c \in ConfCategories :
           AddForApp(a, "DISABLED_CATEGORIES", c)
    \/ \E a \in ConfApps, c \in ConfCategories :
           AddForApp(a, "ENABLED_CATEGORIES", c)

SpecConf == InitConf /\ [][NextConf]_vars

----------------------------------------------------------------------------
(* Claims about the configuration resolver                                 *)

\* The (rule id, app label) pairs the claims are checked for: rules in one,
\* several or no category, and apps with, and without, a per-app entry.
QueryRules == {"SM001", "SM004", "SM013", "SM020"}

QueryApps == ConfApps \cup {"otherapp", None}

\* r is in one of the named categories.
InCategoryOf(r, categories) ==
    \E c \in categories :
        c \in DOMAIN RULE_CATEGORIES /\ r \in RULE_CATEGORIES[c]

\* The per-app lists of app s; all empty for an app without an entry.
AppLists(s) ==
    IF s \in DOMAIN settings.APP_RULES THEN settings.APP_RULES[s]
    ELSE EmptyAppConfig

PassesEveryLayer(r, s) ==
    /\ r \notin AppLists(s).DISABLED_RULES
    /\ AppLists(s).ENABLED_CATEGORIES # {} =>
           InCategoryOf(r, AppLists(s).ENABLED_CATEGORIES)
    /\ ~InCategoryOf(r, AppLists(s).DISABLED_CATEGORIES)
    /\ r \notin settings.DISABLED_RULES
    /\ settings.ENABLED_CATEGORIES # {} =>
           InCategoryOf(r, settings.ENABLED_CATEGORIES)
    /\ ~InCategoryOf(r, settings.DISABLED_CATEGORIES)

\* C3: is_rule_enabled_for_app(r, s) is true only if r passes every layer
\* (per-app disable list, per-app whitelist and blacklist, global disable
\* list, global whitelist and blacklist); a globally disabled rule is
\* disabled for every app, whatever the app's whitelist.
C3_StickyDisable ==
    \A r \in QueryRules, s \in QueryApps :
        /\ is_rule_enabled_for_app(settings, r, s) => PassesEveryLayer(r, s)
        /\ r \in settings.DISABLED_RULES =>
               ~is_rule_enabled_for_app(settings, r, s)

C3_Witness ==
    /\ "SM001" \in settings.DISABLED_RULES
    /\ "high-risk" \in settings.APP_RULES["testapp"].ENABLED_CATEGORIES
    /\ ~is_rule_enabled_for_app(settings, "SM001", "testapp")
    /\ is_rule_enabled_for_app(settings, "SM001", "otherapp")
           = is_rule_enabled(settings, "SM001")

\* The step only adds entries to disable lists (global or per-app
\* DISABLED_RULES and DISABLED_CATEGORIES) and changes nothing else.
OnlyDisablesAdded ==
    /\ settings.DISABLED_RULES \subseteq settings'.DISABLED_RULES
    /\ settings.DISABLED_CATEGORIES \subseteq settings'.DISABLED_CATEGORIES
    /\ settings'.ENABLED_CATEGORIES = settings.ENABLED_CATEGORIES
    /\ settings'.RULE_SEVERITY = settings.RULE_SEVERITY
    /\ \A a \in ConfApps :
           LET old == settings.APP_RULES[a]
               new == settings'.APP_RULES[a]
           IN  /\ old.DISABLED_RULES \subseteq new.DISABLED_RULES
               /\ old.DISABLED_CATEGORIES \subseteq new.DISABLED_CATEGORIES
               /\ new.ENABLED_CATEGORIES = old.ENABLED_CATEGORIES
               /\ new.RULE_SEVERITY = old.RULE_SEVERITY

\* C4: a rule disabled for an app stays disabled for it when the
\* configuration changes only by additions to disable lists.
C4_Monotone ==
    [][OnlyDisablesAdded =>
          \A r \in QueryRules, s \in QueryApps :
              ~is_rule_enabled_for_app(settings, r, s) =>
                  ~is_rule_enabled_for_app(settings', r, s)]_vars

C4_Witness ==
    /\ settings.DISABLED_RULES = {"SM001"}
    /\ settings.APP_RULES["testapp"].DISABLED_RULES = {"SM004"}
    /\ settings.APP_RULES["testapp"].DISABLED_CATEGORIES = {"locking"}
    /\ ~is_rule_enabled_for_app(settings, "SM001", "testapp")

----------------------------------------------------------------------------
(* baseline.py                                                             *)

\* Largest issue list, and largest hand-written baseline, in the model.
MaxIssues == 2

MaxEntries == 2

BaselineKeys == {"rule_id", "app_label", "migration_name", "operation"}

\* json.dumps and json.loads of one value of an entry: None is written as
\* null, a str as a JSON string.
json_dumps_value(v) ==
    IF v = None THEN [t |-> "null"] ELSE [t |-> "string", s |-> v]

json_loads_value(j) == IF j.t = "null" THEN None ELSE j.s

\* The entry generate_baseline records for one issue.
BaselineEntry_NoOperation(issue) ==
    [k \in BaselineKeys \ {"operation"} |-> issue[k]]

BaselineEntry(issue) == [k \in BaselineKeys |-> issue[k]]

\* json.dumps(data): the document written to the baseline path.
json_dumps(entries) ==
    [version |-> 1, count |-> Len(entries),
     issues |-> [n \in 1..Len(entries) |->
                    [k \in DOMAIN entries[n] |->
                        json_dumps_value(entries[n][k])]]]

generate_baseline(issue_list) ==
    json_dumps([n \in 1..Len(issue_list) |-> BaselineEntry(issue_list[n])])

\* load_baseline: json.loads(text), then data.get("issues", []).
load_baseline(document) ==
    [n \in 1..Len(document.issues) |->
        [k \in DOMAIN document.issues[n] |->
            json_loads_value(document.issues[n][k])]]

\* entry.get(key)
EntryGet(entry, key) == IF key \in DOMAIN entry THEN entry[key] ELSE None

Filter_ThreeFields(issue_list, entries) ==
    LET baseline_keys ==
            { <<EntryGet(entries[n], "rule_id"),
                EntryGet(entries[n], "app_label"),
                EntryGet(entries[n], "operation")>> : n \in 1..Len(entries) }
        Keep(issue) ==
            <<issue.rule_id, issue.app_label, issue.operation>>
                \notin baseline_keys
    IN  SelectSeq(issue_list, Keep)

filter_baselined_issues(issue_list, entries) ==
    LET baseline_keys ==
            { <<EntryGet(entries[n], "rule_id"),
                EntryGet(entries[n], "app_label"),
                EntryGet(entries[n], "migration_name"),
                EntryGet(entries[n], "operation")>> : n \in 1..Len(entries) }
        Keep(issue) ==
            <<issue.rule_id, issue.app_label, issue.migration_name,
              issue.operation>> \notin baseline_keys
    IN  SelectSeq(issue_list, Keep)

----------------------------------------------------------------------------
(* SpecBaseline: generate or receive a baseline file, load it, filter      *)

SeqsUpTo(S, n) == UNION { [1..m -> S] : m \in 0..n }

MakeIssue(rule_id, severity, app_label, migration_name, op_name) ==
    [rule_id |-> rule_id, severity |-> severity, operation |-> op_name,
     message |-> "message", app_label |-> app_label,
     migration_name |-> migration_name, file_path |-> None,
     line_number |-> 0]

\* One issue, and the issues that differ from it in a single key field.
IssuePool ==
    { MakeIssue("SM001", "error", "myapp", "0002_add_email",
                "AddField(user.email)"),
      MakeIssue("SM002", "warning", "myapp", "0002_add_email",
                "AddField(user.email)"),
      MakeIssue("SM001", "error", "otherapp", "0002_add_email",
                "AddField(user.email)"),
      MakeIssue("SM001", "error", None, "0002_add_email",
                "AddField(user.email)"),
      MakeIssue("SM001", "error", "myapp", "0003_remove_old",
                "AddField(user.email)"),
      MakeIssue("SM001", "error", "myapp", "0002_add_email", None) }

\* The entries of a baseline file written by hand or by an earlier run:
\* complete entries, and entries that lack a key.
EntryPool ==
    { BaselineEntry(i) : i \in IssuePool }
    \cup { [k \in BaselineKeys \ {missing} |-> IssuePool_i[k]] :
             missing \in {"operation", "app_label"},
             IssuePool_i \in { i \in IssuePool : i.rule_id = "SM001"
                                  /\ i.app_label = "myapp"
                                  /\ i.migration_name = "0002_add_email"
                                  /\ i.operation # None } }

NoFile == [version |-> 0]

InitBaseline ==
    /\ CommandIdle
    /\ issues \in SeqsUpTo(IssuePool, MaxIssues)
    /\ baseline_file = NoFile
    /\ baseline = <<>>
    /\ filtered = <<>>
    /\ bpc = [at |-> "start", origin |-> "none"]
    /\ settings = DEFAULTS
    /\ RulesIdle
    /\ AnalyzerIdle

\* generate_baseline(issues, path)
GenerateBaseline ==
    /\ bpc.at = "start"
    /\ baseline_file' = generate_baseline(issues)
    /\ bpc' = [at |-> "written", origin |-> "generated"]
    /\ UNCHANGED cmdVars
    /\ UNCHANGED <<issues, baseline, filtered, settings, rulesVars,
                   anVars>>

\* The baseline store supplies a file that was not generated from issues.
SupplyBaseline ==
    /\ bpc.at = "start"
    /\ \E entries \in SeqsUpTo(EntryPool, MaxEntries) :
           baseline_file' = json_dumps(entries)
    /\ bpc' = [at |-> "written", origin |-> "supplied"]
    /\ UNCHANGED cmdVars
    /\ UNCHANGED <<issues, baseline, filtered, settings, rulesVars,
                   anVars>>

\* baseline = load_baseline(path)
LoadBaseline ==
    /\ bpc.at = "written"
    /\ baseline' = load_baseline(baseline_file)
    /\ bpc' = [bpc EXCEPT !.at = "loaded"]
    /\ UNCHANGED cmdVars
    /\ UNCHANGED <<issues, baseline_file, filtered, settings, rulesVars,
                   anVars>>

\* filtered = filter_baselined_issues(issues, baseline); without a
\* baseline file the baseline is the empty list.
FilterBaselinedIssues ==
    /\ bpc.at \in {"start", "loaded"}
    /\ filtered' = filter_baselined_issues(issues, baseline)
    /\ bpc' = [bpc EXCEPT !.at = "filtered"]
    /\ UNCHANGED cmdVars
    /\ UNCHANGED <<issues, baseline_file, baseline, settings, rulesVars,
                   anVars>>

NextBaseline ==
    \/ GenerateBaseline
    \/ SupplyBaseline
    \/ LoadBaseline
    \/ FilterBaselinedIssues

SpecBaseline == InitBaseline /\ [][NextBaseline]_vars

----------------------------------------------------------------------------
(* Claims about the baseline matcher                                       *)

\* C6: filtering an issue list against the baseline generated from it
\* (generate_baseline, load_baseline, filter_baselined_issues) gives the
\* empty list, and filtering it against an empty baseline gives the list
\* unchanged.
C6_RoundTrip ==
    bpc.at = "filtered" =>
        /\ bpc.origin = "generated" => filtered = <<>>
        /\ baseline = <<>> => filtered = issues

C6_Witness ==
    /\ bpc = [at |-> "filtered", origin |-> "generated"]
    /\ Len(issues) = MaxIssues
    /\ \E n \in 1..Len(issues) : issues[n].operation = None
    /\ \E n \in 1..Len(issues) : issues[n].app_label = None
    /\ filtered = <<>>

\* Entry e matches issue i on all four key fields; a key the entry lacks
\* reads as None.
Matches(i, e) ==
    \A k \in BaselineKeys : (IF k \in DOMAIN e THEN e[k] ELSE None) = i[k]

\* The positions of the issues that no baseline entry matches.
KeptPositions ==
    { n \in 1..Len(issues) :
        \A m \in 1..Len(baseline) : ~Matches(issues[n], baseline[m]) }

\* C7: filter_baselined_issues returns, in their original order, exactly
\* the issues whose (rule_id, app_label, migration_name, operation) equals
\* no baseline entry's 4-tuple.
C7_ExactFilter ==
    bpc.at = "filtered" =>
        /\ Len(filtered) = Cardinality(KeptPositions)
        /\ \A n \in KeptPositions :
               filtered[Cardinality({ m \in KeptPositions : m <= n })]
                   = issues[n]

\* An entry that differs from an issue in the migration name alone is in
\* the baseline, another entry suppresses a different issue, and the first
\* issue is kept.
C7_Witness ==
    /\ bpc = [at |-> "filtered", origin |-> "supplied"]
    /\ Len(issues) = 2 /\ Len(baseline) = 2
    /\ issues[1].migration_name = "0002_add_email"
    /\ baseline[1] = BaselineEntry([issues[1] EXCEPT
                                       !.migration_name = "0003_remove_old"])
    /\ baseline[2] = BaselineEntry(issues[2])
    /\ filtered = <<issues[1]>>

----------------------------------------------------------------------------
(* SpecRules: one rule checks one operation                                *)

RuleOps ==
    { Op("AddField", "user", "email", f) : f \in Fields }
    \cup { Op("AlterField", "user", "email", f) : f \in Fields }
    \cup { Op("RemoveField", "user", "email", NoField) }

TheMigration == Mig("testapp", "0002_change")

InitRules ==
    /\ CommandIdle
    /\ operation \in RuleOps
    /\ old_field \in IF operation.kind = "AlterField"
                     THEN OldFields \cup {NoneRec} ELSE {NoneRec}
    /\ checked = NoneRec
    /\ settings = DEFAULTS
    /\ BaselineIdle
    /\ AnalyzerIdle

Check(rule_id) ==
    /\ checked = NoneRec
    /\ checked' = [rule_id |-> rule_id,
                   issue |-> RuleCheck(rule_id, operation, TheMigration,
                                       old_field)]
    /\ UNCHANGED cmdVars
    /\ UNCHANGED <<operation, old_field, settings, baseVars, anVars>>

\* The rule classes of rules/add_field.py and rules/alter_field.py modelled.
CheckedRules == {"SM001", "SM004", "SM005", "SM013", "SM020", "SM021", "SM029"}

NextRules == \E rule_id \in CheckedRules : Check(rule_id)

SpecRules == InitRules /\ [][NextRules]_vars

----------------------------------------------------------------------------
(* Claims about the rules                                                  *)

AutoFieldClasses == {"AutoField", "BigAutoField", "SmallAutoField"}

CheckedBy(rule_id) == checked # NoneRec /\ checked.rule_id = rule_id

\* The AddField adds a NOT NULL column with no Python default, no database
\* default, and the field is neither a primary key nor an auto field.
NotNullNoDefault ==
    /\ operation.kind = "AddField"
    /\ ~operation.field.null
    /\ operation.field.default = NOT_PROVIDED
    /\ operation.field.db_default = NOT_PROVIDED
    /\ ~operation.field.primary_key
    /\ operation.field.cls \notin AutoFieldClasses

\* C1 (as stated): SM001 returns one Error issue for an AddField if and only
\* if the field is non-nullable, has no default, no database default and is
\* not a primary-key/auto field.
C1_Original ==
    CheckedBy("SM001") =>
        /\ (checked.issue # NoneRec) <=> NotNullNoDefault
        /\ checked.issue # NoneRec =>
               checked.issue.rule_id = "SM001"
               /\ checked.issue.severity = "error"

\* C1 (amended): SM001 returns one Error issue for an AddField if and only if
\* the field is non-nullable, has no default, no database default, is not a
\* primary-key/auto field and is not a relation declared with
\* db_constraint=False; it returns no issue whenever the field is nullable.
C1_SM001_Iff ==
    CheckedBy("SM001") =>
        /\ (checked.issue # NoneRec) <=>
               (NotNullNoDefault /\ operation.field.db_constraint # "False")
        /\ checked.issue # NoneRec =>
               checked.issue.rule_id = "SM001"
               /\ checked.issue.severity = "error"
        /\ (operation.kind = "AddField" /\ operation.field.null) =>
               checked.issue = NoneRec

C1_Witness ==
    /\ CheckedBy("SM001")
    /\ NotNullNoDefault
    /\ operation.field.cls = "ForeignKey"
    /\ operation.field.db_constraint = "True"
    /\ checked.issue # NoneRec

\* The rule reported an issue for an AlterField when given a prior state.
ReportedWithPriorState(rule_id) ==
    /\ CheckedBy(rule_id)
    /\ operation.kind = "AlterField"
    /\ old_field # NoneRec
    /\ checked.issue # NoneRec

ReportsColdStart(rule_id) ==
    RuleCheck(rule_id, operation, TheMigration, NoneRec) # NoneRec

\* C9 (as stated): a rule that consumes prior column state and reports an
\* issue for an AlterField under some prior state also reports an issue
\* when called with no prior state.
C9_Original ==
    \A r \in PriorStateRules :
        ReportedWithPriorState(r) => ReportsColdStart(r)

\* C9 (amended): SM013, SM020 and SM021 report an issue with no prior state
\* whenever they report one under some prior state; SM004 does so unless
\* the new field is a BooleanField, NullBooleanField or TextField or has
\* null=True, in which case it reports nothing with no prior state; SM029
\* reports nothing with no prior state.
C9_ColdStart ==
    /\ \A r \in {"SM013", "SM020", "SM021"} :
           ReportedWithPriorState(r) => ReportsColdStart(r)
    /\ ReportedWithPriorState("SM004") =>
           (ReportsColdStart("SM004") <=>
                (operation.field.cls \notin
                     {"BooleanField", "NullBooleanField", "TextField"}
                 /\ ~operation.field.null))
    /\ (CheckedBy("SM029") /\ old_field = NoneRec) => checked.issue = NoneRec

C9_Witness ==
    /\ ReportedWithPriorState("SM020")
    /\ old_field.null
    /\ ReportsColdStart("SM020")

----------------------------------------------------------------------------
(* conf.py: severity overrides                                             *)

\* s.lower() and s.upper() for the strings RULE_SEVERITY dicts hold in the
\* model: "INFO", "ERROR", "warning" and "bogus".
str_lower(s) ==
    CASE s = "INFO" -> "info"
      [] s = "ERROR" -> "error"
      [] OTHER -> s

str_upper(s) ==
    CASE s = "warning" -> "WARNING"
      [] s = "bogus" -> "BOGUS"
      [] OTHER -> s

\* The body of the loop of get_severity_overrides for one string: the
\* member with value s.lower(), else the member named s.upper(), else no
\* override at all.  The members of Severity are named ERROR, WARNING, INFO
\* and valued "error", "warning", "info".
ParseSeverity(s) ==
    IF str_lower(s) \in Severities THEN str_lower(s)
    ELSE IF str_upper(s) \in {"ERROR", "WARNING", "INFO"}
         THEN str_lower(str_upper(s))
    ELSE Unset

get_severity_overrides(st) ==
    [r \in ConfRules |->
        IF get_config(st).RULE_SEVERITY[r] = Unset THEN Unset
        ELSE ParseSeverity(get_config(st).RULE_SEVERITY[r])]

get_rule_severity(st, rule_id, default) ==
    IF rule_id \in ConfRules /\ get_severity_overrides(st)[rule_id] # Unset
    THEN get_severity_overrides(st)[rule_id]
    ELSE default

get_rule_severity_for_app(st, rule_id, default, app_label) ==
    LET app_severity == get_app_config(st, app_label).RULE_SEVERITY
    IN  IF /\ app_label # None
           /\ rule_id \in ConfRules
           /\ app_severity[rule_id] # Unset
           /\ ParseSeverity(app_severity[rule_id]) # Unset
        THEN ParseSeverity(app_severity[rule_id])
        ELSE get_rule_severity(st, rule_id, default)

get_excluded_apps(st) == get_config(st).EXCLUDED_APPS

----------------------------------------------------------------------------
(* rules/__init__.py: the registry                                         *)

\* ALL_RULES, restricted to the rule classes modelled above, in the order
\* of the registry.
ALL_RULES == <<"SM001", "SM004", "SM005", "SM013">>

\* The db_vendors attribute of a rule class; empty means every vendor.
db_vendors(rule_id) ==
    IF rule_id \in {"SM005", "SM013", "SM021"} THEN {"postgresql"} ELSE {}

\* BaseRule.applies_to_db
applies_to_db(rule_id, db_vendor) ==
    db_vendors(rule_id) = {} \/ db_vendor \in db_vendors(rule_id)

get_all_rules(db_vendor) ==
    SelectSeq(ALL_RULES, LAMBDA r : applies_to_db(r, db_vendor))

----------------------------------------------------------------------------
(* Django's MigrationLoader, as analyzer.py uses it                        *)

\* An optional value that is present.
Some(v) == [some |-> v]

\* What importing the module of a migration and reading its file can meet.
FileConditions ==
    {"ok", "not_importable", "missing", "unreadable", "undecodable",
     "no_operations_list"}

\* A migration of the project; its module file is in order.
Migration(app_label, name, operations, dependencies, replaces) ==
    [app_label |-> app_label, name |-> name, operations |-> operations,
     dependencies |-> dependencies, replaces |-> replaces, file |-> "ok"]

Key(m) == <<m.app_label, m.name>>

Range(s) == { s[n] : n \in DOMAIN s }

\* list(loader.disk_migrations.keys())
disk_migrations_keys(d) == [n \in DOMAIN d |-> Key(d[n])]

\* The keys of loader.graph.nodes after build_graph.  A squashed migration
\* is usable when all or none of the migrations it replaces are applied:
\* then the replaced ones are removed from the graph; otherwise the
\* squashed one is removed.
GraphNodes(d, applied_keys) ==
    LET CanUse(m) == \/ \A k \in m.replaces : k \in applied_keys
                     \/ \A k \in m.replaces : k \notin applied_keys
        squashes == { m \in Range(d) : m.replaces # {} }
    IN  ({ Key(m) : m \in Range(d) }
            \ UNION { m.replaces : m \in { s \in squashes : CanUse(s) } })
            \ { Key(m) : m \in { s \in squashes : ~CanUse(s) } }

\* loader.disk_migrations[key]: the object get_migration returns for a key
\* of the graph.
DiskMigration(d, key) == CHOOSE m \in Range(d) : Key(m) = key

\* Every app label and migration name of the model, in Python's string
\* order.
AppLabels == <<"otherapp", "testapp">>

MigrationNames ==
    <<"0001_initial", "0002_alter", "0002_branch", "0003_squashed">>

\* sorted(...) of the keys of one app by migration name
SortedByName(app_label, keys) ==
    LET names == SelectSeq(MigrationNames,
                           LAMBDA n : <<app_label, n>> \in keys)
    IN  [n \in DOMAIN names |-> <<app_label, names[n]>>]

----------------------------------------------------------------------------
(* utils.py: where an operation is in the migration file                   *)

\* One line of a migration file: whether it contains "operations = [",
\* whether, stripped, it starts with "migrations.", and its count of "["
\* minus its count of "]".
Line(is_start, is_op, brackets) ==
    [is_start |-> is_start, is_op |-> is_op, brackets |-> brackets]

\* The file of a migration in the layout of the test project: the class
\* line, "operations = [", then for each operation its opening line, its
\* arguments and its closing line, then "]".
SourceLines(migration) ==
    LET n_ops == Len(migration.operations)
    IN  IF migration.file = "no_operations_list"
        THEN <<Line(FALSE, FALSE, 0)>>
        ELSE [n \in 1..(3 * n_ops + 3) |->
                IF n = 1 THEN Line(FALSE, FALSE, 0)
                ELSE IF n = 2 THEN Line(TRUE, FALSE, 1)
                ELSE IF n = 3 * n_ops + 3 THEN Line(FALSE, FALSE, -1)
                ELSE Line(FALSE, n % 3 = 0, 0)]

\* importlib.import_module raises ImportError, which is caught, when the
\* module is not importable.
get_migration_file_path(migration) ==
    IF migration.file = "not_importable" THEN None
    ELSE migration.app_label \o "/migrations/" \o migration.name \o ".py"

\* The exceptions that "except (OSError, IOError)" catches.
OSErrors == {"PermissionError", "FileNotFoundError"}

\* open(file_path, "r") and f.readlines()
readlines(migration) ==
    IF migration.file = "unreadable" THEN Raised("PermissionError")
    ELSE IF migration.file = "undecodable"
    THEN Raised("UnicodeDecodeError")
    ELSE [lines |-> SourceLines(migration)]

\* The for loop of get_operation_line_number from line i on; started is
\* "operations_start is not None".
RECURSIVE ScanLines(_, _, _, _, _, _)
ScanLines(lines, i, started, bracket_depth, current_operation,
          operation_index) ==
    IF i > Len(lines) THEN 0
    ELSE IF lines[i].is_start
    THEN ScanLines(lines, i + 1, TRUE, lines[i].brackets, current_operation,
                   operation_index)
    ELSE IF ~started
    THEN ScanLines(lines, i + 1, FALSE, bracket_depth, current_operation,
                   operation_index)
    ELSE LET depth == bracket_depth + lines[i].brackets
             current == IF lines[i].is_op THEN current_operation + 1
                        ELSE current_operation
         IN  IF lines[i].is_op /\ current = operation_index THEN i
             ELSE IF depth <= 0 THEN 0
             ELSE ScanLines(lines, i + 1, TRUE, depth, current,
                            operation_index)

\* Some(line), with line 0 for None, or the exception that leaves the
\* function.
get_operation_line_number(migration, operation_index) ==
    IF \/ get_migration_file_path(migration) = None
       \/ migration.file = "missing"
    THEN Some(0)
    ELSE LET f == readlines(migration)
         IN  IF IsRaised(f)
             THEN IF f.raised \in OSErrors THEN Some(0) ELSE f
             ELSE Some(ScanLines(f.lines, 1, FALSE, 0, -1, operation_index))

----------------------------------------------------------------------------
(* analyzer.py                                                             *)

\* MigrationAnalyzer(rules, db_vendor, disabled_rules); rules and
\* disabled_rules are NoneRec or Some(...).  given keeps the rules argument
\* of the call.
MigrationAnalyzer(rules, db_vendor, disabled_rules) ==
    [db_vendor |-> db_vendor,
     given |-> rules,
     disabled_rules |-> disabled_rules,
     rules |-> IF rules = NoneRec \/ rules.some = <<>>
               THEN get_all_rules(db_vendor)
               ELSE rules.some]

IsRuleDisabled_OnceRun(self, st, rule_id) ==
    \/ run.first # NoneRec
    \/ IF self.disabled_rules # NoneRec
       THEN rule_id \in self.disabled_rules.some
       ELSE is_rule_disabled(st, rule_id)

MigrationAnalyzer_is_rule_disabled(self, st, rule_id) ==
    IF self.disabled_rules # NoneRec
    THEN rule_id \in self.disabled_rules.some
    ELSE is_rule_disabled(st, rule_id)

AnalyzeOne_NoVendorSkip(self, st, migration, app_label, migration_name, idx, rule_id) ==
    IF MigrationAnalyzer_is_rule_disabled(self, st, rule_id) THEN NoneRec
    ELSE LET issue == RuleCheck(rule_id, migration.operations[idx],
                                migration, NoneRec)
         IN  IF issue = NoneRec \/ IsRaised(issue) THEN issue
             ELSE [issue EXCEPT
                     !.severity = get_rule_severity(st, rule_id, @)]

\* The body of the inner loop of analyze_migration for one operation and
\* one rule: NoneRec when the rule is skipped or reports nothing, the
\* exception when rule.check raises, else the issue that is appended.  idx
\* counts operations from 1.
AnalyzeOne(self, st, migration, app_label, migration_name, idx, rule_id) ==
    IF MigrationAnalyzer_is_rule_disabled(self, st, rule_id) THEN NoneRec
    ELSE IF ~applies_to_db(rule_id, self.db_vendor) THEN NoneRec
    ELSE LET issue == RuleCheck(rule_id, migration.operations[idx],
                                migration, NoneRec)
             line == get_operation_line_number(migration, idx - 1)
         IN  IF issue = NoneRec \/ IsRaised(issue) THEN issue
             ELSE IF issue.line_number = 0 /\ IsRaised(line) THEN line
             ELSE [issue EXCEPT
                     !.severity = get_rule_severity(st, rule_id, @),
                     !.file_path =
                         IF @ = None THEN get_migration_file_path(migration)
                         ELSE @,
                     !.line_number = IF @ = 0 THEN line.some ELSE @,
                     !.app_label = IF @ = None THEN app_label ELSE @,
                     !.migration_name =
                         IF @ = None THEN migration_name ELSE @]

\* The rule.check call the inner loop makes, as a set of at most one call.
CallsOf(self, st, migration, idx, rule_id) ==
    IF \/ MigrationAnalyzer_is_rule_disabled(self, st, rule_id)
       \/ ~applies_to_db(rule_id, self.db_vendor)
    THEN {}
    ELSE {[key |-> Key(migration), idx |-> idx, rule_id |-> rule_id,
           old_field |-> NoneRec]}

\* The local state of an entry point at the head of its loop over
\* migrations: apps is what analyze_all has still to visit, queue what the
\* current loop has still to visit.  first is what the caller keeps of an
\* earlier call: NoneRec, or how it ended and the list it returned.
Frame(entry, arg, apps, queue) ==
    [pc |-> "loop", entry |-> entry, arg |-> arg, apps |-> apps,
     queue |-> queue, cur |-> NoneRec, app_label |-> None,
     migration_name |-> None, idx |-> 0, ridx |-> 0,
     first |-> IF run.pc = "again" THEN run.first ELSE NoneRec,
     snapshot |-> settings, exclude_apps |-> NoneRec]

\* The caller is about to call an entry point: for the first time, or for
\* the second time with the arguments of the first.
CanCall(entry, arg) ==
    \/ run.pc = "idle"
    \/ run.pc = "again" /\ run.entry = entry /\ run.arg = arg

\* analyze_migration up to its first inner-loop iteration: the metadata
\* defaults to the attributes of the migration.
EnterMigration(r, migration, app_label, migration_name) ==
    IF Len(migration.operations) = 0 \/ Len(analyzer.rules) = 0 THEN r
    ELSE [r EXCEPT !.pc = "rules",
                   !.cur = migration,
                   !.app_label = IF app_label = None
                                 THEN migration.app_label ELSE app_label,
                   !.migration_name = IF migration_name = None
                                      THEN migration.name
                                      ELSE migration_name,
                   !.idx = 1,
                   !.ridx = 1]

\* analyze_app up to its loop: get_migration is called for every key of
\* the app on disk, against the graph of MigrationLoader(None), and raises
\* KeyError for a key that is not a node; then the list is sorted by name.
EnterApp(r, app_label) ==
    LET keys == { Key(x) : x \in { y \in Range(disk) :
                                      y.app_label = app_label } }
    IN  IF keys \subseteq GraphNodes(disk, {})
        THEN [r EXCEPT !.queue = SortedByName(app_label, keys)]
        ELSE [r EXCEPT !.pc = "raised"]

\* analyzer.analyze_migration(migration) for the migration on disk with the
\* given key
CallAnalyzeMigration(key) ==
    /\ CanCall("analyze_migration", key)
    /\ key \in Range(disk_migrations_keys(disk))
    /\ run' = EnterMigration(Frame("analyze_migration", key, <<>>, <<>>),
                             DiskMigration(disk, key), None, None)
    /\ analysed' = <<key>>
    /\ UNCHANGED cmdVars
    /\ UNCHANGED <<disk, applied, analyzer, calls, lookups, settings,
                   rulesVars, baseVars>>

\* analyzer.analyze_app(app_label)
CallAnalyzeApp(app_label) ==
    /\ CanCall("analyze_app", app_label)
    /\ run' = EnterApp(Frame("analyze_app", app_label, <<>>, <<>>),
                       app_label)
    /\ UNCHANGED cmdVars
    /\ UNCHANGED <<disk, applied, analyzer, calls, lookups, analysed,
                   settings, rulesVars, baseVars>>

\* analyzer.analyze_all(): the sorted app labels of the disk migrations
CallAnalyzeAll ==
    /\ CanCall("analyze_all", None)
    /\ run' = Frame("analyze_all", None,
                    SelectSeq(AppLabels,
                              LAMBDA a : \E x \in Range(disk) :
                                             x.app_label = a),
                    <<>>)
    /\ UNCHANGED cmdVars
    /\ UNCHANGED <<disk, applied, analyzer, calls, lookups, analysed,
                   settings, rulesVars, baseVars>>

\* analyzer.analyze_new_migrations(app_label)
CallAnalyzeNew(app_label) ==
    /\ CanCall("analyze_new_migrations", app_label)
    /\ run' = Frame("analyze_new_migrations", app_label, <<>>,
                    disk_migrations_keys(disk))
    /\ UNCHANGED cmdVars
    /\ UNCHANGED <<disk, applied, analyzer, calls, lookups, analysed,
                   settings, rulesVars, baseVars>>

\* One iteration of the loop of analyze_all: skip an excluded app, else
\* call analyze_app.
NextApp ==
    /\ run.pc = "loop"
    /\ run.queue = <<>>
    /\ run.apps # <<>>
    /\ run' = IF Head(run.apps) \in
                     (IF run.exclude_apps = NoneRec
                      THEN get_excluded_apps(settings)
                      ELSE run.exclude_apps.some)
              THEN [run EXCEPT !.apps = Tail(@)]
              ELSE EnterApp([run EXCEPT !.apps = Tail(@)], Head(run.apps))
    /\ UNCHANGED cmdVars
    /\ UNCHANGED <<disk, applied, analyzer, calls, lookups, analysed,
                   settings, rulesVars, baseVars>>

\* One iteration of the loop over migrations of analyze_app or of
\* analyze_new_migrations, up to the first inner-loop iteration of
\* analyze_migration.
NextMigration ==
    /\ run.pc = "loop"
    /\ run.queue # <<>>
    /\ LET key == Head(run.queue)
           rest == [run EXCEPT !.queue = Tail(@)]
           skipped == /\ run.entry = "analyze_new_migrations"
                      /\ \/ key \in applied
                         \/ run.arg # None /\ key[1] # run.arg
           missing == /\ run.entry = "analyze_new_migrations"
                      /\ key \notin GraphNodes(disk, applied)
       IN  IF skipped THEN run' = rest /\ analysed' = analysed
           ELSE IF missing
           THEN run' = [rest EXCEPT !.pc = "raised"] /\ analysed' = analysed
           ELSE /\ run' = EnterMigration(rest, DiskMigration(disk, key),
                                         key[1], key[2])
                /\ analysed' = Append(analysed, key)
    /\ UNCHANGED cmdVars
    /\ UNCHANGED <<disk, applied, analyzer, calls, lookups, settings,
                   rulesVars, baseVars>>

\* One iteration of the inner loop of analyze_migration; after the last
\* rule of the last operation the issues go to the caller's list.
RuleStep ==
    /\ run.pc = "rules"
    /\ LET rule_id == analyzer.rules[run.ridx]
           issue == AnalyzeOne(analyzer, settings, run.cur, run.app_label,
                               run.migration_name, run.idx, rule_id)
       IN  /\ issues' = IF issue = NoneRec \/ IsRaised(issue) THEN issues
                        ELSE Append(issues, issue)
           /\ calls' = calls \cup CallsOf(analyzer, settings, run.cur,
                                          run.idx, rule_id)
           /\ lookups' = lookups \cup {[key |-> Key(run.cur),
                                         idx |-> run.idx,
                                         rule_id |-> rule_id]}
           /\ run' = IF IsRaised(issue) THEN [run EXCEPT !.pc = "raised"]
                     ELSE IF run.ridx < Len(analyzer.rules)
                     THEN [run EXCEPT !.ridx = @ + 1]
                     ELSE IF run.idx < Len(run.cur.operations)
                     THEN [run EXCEPT !.idx = @ + 1, !.ridx = 1]
                     ELSE [run EXCEPT !.pc = "loop", !.cur = NoneRec,
                                      !.app_label = None,
                                      !.migration_name = None,
                                      !.idx = 0, !.ridx = 0]
    /\ UNCHANGED cmdVars
    /\ UNCHANGED <<disk, applied, analyzer, analysed, settings, rulesVars,
                   baseline_file, baseline, filtered, bpc>>

\* return issues
Return ==
    /\ run.pc = "loop"
    /\ run.queue = <<>>
    /\ run.apps = <<>>
    /\ run' = [run EXCEPT !.pc = "done"]
    /\ UNCHANGED cmdVars
    /\ UNCHANGED <<disk, applied, analyzer, calls, lookups, analysed,
                   settings, rulesVars, baseVars>>

----------------------------------------------------------------------------
(* rules/graph.py                                                          *)

\* ", ".join(names) for a sequence of names
RECURSIVE JoinNames(_)
JoinNames(names) ==
    IF names = <<>> THEN ""
    ELSE IF Len(names) = 1 THEN names[1]
    ELSE names[1] \o ", " \o JoinNames(Tail(names))

CheckGraph_NoAppLabel(app_label, leaf_migrations) ==
    IF Cardinality(leaf_migrations) <= 1 THEN NoneRec
    ELSE [rule_id |-> "SM027", severity |-> "error",
          operation |-> "Multiple leaf migrations in " \o app_label,
          message |-> "leaf migrations", app_label |-> None,
          migration_name |-> None, file_path |-> None, line_number |-> 0]

\* MissingMergeMigrationRule.check_graph(app_label, leaf_migrations), for
\* the set of leaf migration names of the app: the message carries the
\* sorted names.
MissingMergeMigrationRule_check_graph(app_label, leaf_migrations) ==
    IF Cardinality(leaf_migrations) <= 1 THEN NoneRec
    ELSE [rule_id |-> "SM027", severity |-> "error",
          operation |-> "Multiple leaf migrations in " \o app_label,
          message |-> JoinNames(SelectSeq(MigrationNames,
                                          LAMBDA n : n \in leaf_migrations)),
          app_label |-> app_label, migration_name |-> None,
          file_path |-> None, line_number |-> 0]

\* The names of the leaf migrations of an app: the nodes of its graph that
\* no other node of the app depends on.
LeafMigrations(app_label) ==
    LET nodes == { x \in Range(disk) :
                      /\ x.app_label = app_label
                      /\ Key(x) \in GraphNodes(disk, {}) }
    IN  { x.name : x \in { y \in nodes :
                              \A z \in nodes : Key(y) \notin z.dependencies } }

\* A caller runs the graph-level check on an app of the project instead of
\* an entry point of the analyzer.
CheckGraph(app_label) ==
    /\ run.pc = "idle"
    /\ checked' = [rule_id |-> "SM027",
                   issue |-> MissingMergeMigrationRule_check_graph(
                                 app_label, LeafMigrations(app_label))]
    /\ run' = [pc |-> "graph"]
    /\ UNCHANGED cmdVars
    /\ UNCHANGED <<operation, old_field, disk, applied, analyzer, calls,
                   lookups, analysed, settings, baseVars>>

----------------------------------------------------------------------------
(* SpecAnalyzer: one entry point of one analyzer runs over a project       *)

CharF(null, max_length) ==
    [cls |-> "CharField", null |-> null, default |-> NOT_PROVIDED,
     db_default |-> NOT_PROVIDED, primary_key |-> FALSE, unique |-> FALSE,
     db_constraint |-> "absent", max_length |-> max_length]

OwnerFK ==
    [cls |-> "ForeignKey", null |-> FALSE, default |-> NOT_PROVIDED,
     db_default |-> NOT_PROVIDED, primary_key |-> FALSE, unique |-> FALSE,
     db_constraint |-> "True", max_length |-> 0]

\* testapp 0001_initial adds user.email.
InitialMigration(field) ==
    Migration("testapp", "0001_initial",
              <<Op("AddField", "user", "email", field)>>, {}, {})

\* testapp 0002_alter alters user.email and depends on 0001_initial.
AlterMigration(field) ==
    Migration("testapp", "0002_alter",
              <<Op("AlterField", "user", "email", field)>>,
              {<<"testapp", "0001_initial">>}, {})

\* testapp 0003_squashed replaces the first one or two migrations of the
\* app and carries their operations.
SquashedMigration(replaced) ==
    Migration("testapp", "0003_squashed",
              IF Len(replaced) = 1 THEN replaced[1].operations
              ELSE replaced[1].operations \o replaced[2].operations,
              {}, Range(disk_migrations_keys(replaced)))

\* testapp 0002_branch adds user.nickname and depends on 0001_initial: with
\* 0002_alter on disk the app has two leaf migrations.
BranchMigration ==
    Migration("testapp", "0002_branch",
              <<Op("AddField", "user", "nickname", CharF(TRUE, 1))>>,
              {<<"testapp", "0001_initial">>}, {})

\* testapp 0002_alter altering user.email twice, the second time to a
\* shorter column.
TwoStepAlterMigration ==
    Migration("testapp", "0002_alter",
              <<Op("AlterField", "user", "email", CharF(FALSE, MaxLen)),
                Op("AlterField", "user", "email", CharF(FALSE, 1))>>,
              {<<"testapp", "0001_initial">>}, {})

OtherInitial ==
    Migration("otherapp", "0001_initial",
              <<Op("AddField", "order", "owner", OwnerFK)>>, {}, {})

\* The projects: testapp, listed first in INSTALLED_APPS, with one or two
\* migrations and possibly a squashed one or a second branch, and otherapp;
\* in the last kind of project the file of the replaced 0001_initial has
\* been deleted.
Disks ==
    LET As == { InitialMigration(CharF(n, MaxLen)) : n \in BOOLEAN }
        Bs == { AlterMigration(CharF(FALSE, MaxLen)),
                AlterMigration(CharF(TRUE, 1)) }
    IN  UNION { { <<a, OtherInitial>>,
                  <<a, SquashedMigration(<<a>>), OtherInitial>>,
                  <<a, TwoStepAlterMigration, OtherInitial>> }
                \cup UNION { { <<a, b, OtherInitial>>,
                               <<a, b, SquashedMigration(<<a>>),
                                 OtherInitial>>,
                               <<a, b, SquashedMigration(<<a, b>>),
                                 OtherInitial>>,
                               <<a, b, BranchMigration, OtherInitial>>,
                               <<b, SquashedMigration(<<a>>),
                                 OtherInitial>> }
                             : b \in Bs }
              : a \in As }

\* The project whose migration files are all in the given condition.
WithFile(d, condition) ==
    [n \in DOMAIN d |-> [d[n] EXCEPT !.file = condition]]

\* What the recorder can report for a project: the first n migrations of
\* testapp that are not squashed ones.
AppliedSets(d) ==
    { Range(disk_migrations_keys(SubSeq(d, 1, n))) :
        n \in { k \in 0..Len(d) :
                  \A j \in 1..k : /\ d[j].app_label = "testapp"
                                  /\ d[j].replaces = {} } }

WithGlobal(st, key, entry) == [st EXCEPT ![key] = @ \cup {entry}]

WithApp(st, key, entry) ==
    [st EXCEPT !.APP_RULES["testapp"][key] = @ \cup {entry}]

\* The configurations of a run: the defaults, the defaults with one entry
\* in one list or dict, globally or for testapp, two configurations where
\* a global entry and an entry for testapp meet, and two with a severity
\* override that is neither a value nor a name of Severity.
RunSettings ==
    LET entries == { <<"DISABLED_RULES", "SM001">>,
                     <<"DISABLED_RULES", "SM004">>,
                     <<"DISABLED_CATEGORIES", "high-risk">>,
                     <<"ENABLED_CATEGORIES", "locking">> }
    IN  {DEFAULTS}
        \cup { WithGlobal(DEFAULTS, e[1], e[2]) : e \in entries }
        \cup { WithApp(DEFAULTS, e[1], e[2]) : e \in entries }
        \cup { WithGlobal(DEFAULTS, "EXCLUDED_APPS", "otherapp"),
               [DEFAULTS EXCEPT !.RULE_SEVERITY["SM001"] = "INFO"],
               [DEFAULTS EXCEPT
                   !.APP_RULES["testapp"].RULE_SEVERITY["SM001"] = "warning"],
               [DEFAULTS EXCEPT
                   !.RULE_SEVERITY["SM001"] = "INFO",
                   !.APP_RULES["testapp"].RULE_SEVERITY["SM001"] = "ERROR"],
               WithApp(WithGlobal(DEFAULTS, "DISABLED_RULES", "SM001"),
                       "ENABLED_CATEGORIES", "high-risk"),
               [DEFAULTS EXCEPT !.RULE_SEVERITY["SM001"] = "critical"],
               [DEFAULTS EXCEPT
                   !.APP_RULES["testapp"].RULE_SEVERITY["SM001"] =
                       "critical"] }

\* The analyzers of a run.
Analyzers ==
    { MigrationAnalyzer(NoneRec, "postgresql", NoneRec),
      MigrationAnalyzer(NoneRec, "sqlite", NoneRec),
      MigrationAnalyzer(Some(<<"SM020", "SM001", "SM013">>), "sqlite",
                        NoneRec),
      MigrationAnalyzer(Some(<<>>), "postgresql", Some({"SM004"})) }

\* What the project's settings can become while an entry point runs.
SettingsChanges ==
    { WithGlobal(DEFAULTS, "DISABLED_RULES", "SM001"),
      [DEFAULTS EXCEPT !.RULE_SEVERITY["SM001"] = "INFO"] }

\* The settings change once, from the defaults, while an entry point runs
\* (override_settings, or another thread); run.snapshot keeps the settings
\* the entry point was called under.
ChangeSettings ==
    /\ run.pc \in {"rules", "loop"}
    /\ run.first = NoneRec
    /\ settings = run.snapshot
    /\ settings = DEFAULTS
    /\ settings' \in SettingsChanges
    /\ UNCHANGED cmdVars
    /\ UNCHANGED <<anVars, issues, rulesVars, baseline_file, baseline,
                   filtered, bpc>>

\* After an entry point has returned or raised, the caller keeps the
\* outcome and prepares to call it again on the same analyzer with the same
\* arguments under the same settings.
CallAgain ==
    /\ run.pc \in {"done", "raised"}
    /\ run.first = NoneRec
    /\ settings = run.snapshot
    /\ run' = [pc |-> "again", entry |-> run.entry, arg |-> run.arg,
               first |-> [pc |-> run.pc, issues |-> issues]]
    /\ issues' = <<>>
    /\ calls' = {}
    /\ lookups' = {}
    /\ analysed' = <<>>
    /\ UNCHANGED cmdVars
    /\ UNCHANGED <<disk, applied, analyzer, settings, rulesVars,
                   baseline_file, baseline, filtered, bpc>>

\* Every project with files in order under every configuration and
\* analyzer, and every project with files in another condition under the
\* default configuration and the default analyzer.
InitAnalyzer ==
    /\ CommandIdle
    /\ \/ /\ disk \in Disks
          /\ settings \in RunSettings
          /\ analyzer \in Analyzers
       \/ /\ disk \in { WithFile(d, condition) :
                            d \in Disks,
                            condition \in FileConditions \ {"ok"} }
          /\ settings = DEFAULTS
          /\ analyzer = MigrationAnalyzer(NoneRec, "postgresql", NoneRec)
    /\ applied \in AppliedSets(disk)
    /\ run = [pc |-> "idle"]
    /\ calls = {}
    /\ lookups = {}
    /\ analysed = <<>>
    /\ RulesIdle
    /\ BaselineIdle

NextAnalyzer ==
    \/ \E key \in Range(AppLabels) \X Range(MigrationNames) :
           CallAnalyzeMigration(key)
    \/ \E app_label \in Range(AppLabels) : CallAnalyzeApp(app_label)
    \/ CallAnalyzeAll
    \/ \E app_label \in Range(AppLabels) \cup {None} :
           CallAnalyzeNew(app_label)
    \/ NextApp
    \/ NextMigration
    \/ RuleStep
    \/ Return
    \/ CallAgain
    \/ ChangeSettings
    \/ \E app_label \in Range(AppLabels) : CheckGraph(app_label)

SpecAnalyzer == InitAnalyzer /\ [][NextAnalyzer]_vars

----------------------------------------------------------------------------
(* Claims about the analyzer                                               *)

\* The severity attribute of the rule class.
RuleSeverity(rule_id) ==
    IF rule_id \in {"SM001", "SM020", "SM021"} THEN "error" ELSE "warning"

\* An entry point that analyses testapp has returned or raised.
AnalysedTestapp ==
    /\ run.pc \in {"done", "raised"}
    /\ \/ run.entry = "analyze_app" /\ run.arg = "testapp"
       \/ run.entry = "analyze_all"
       \/ run.entry = "analyze_new_migrations"
          /\ run.arg \in {None, "testapp"}

\* C2: when an analyzer that takes its disabled rules from the settings
\* returns, no returned issue is for a rule that the configuration resolver
\* reports disabled for the issue's app, whichever layer disables it.
C2_NoDisabledIssue ==
    (run.pc = "done" /\ analyzer.disabled_rules = NoneRec)
        => \A n \in DOMAIN issues :
               is_rule_enabled_for_app(settings, issues[n].rule_id,
                                       issues[n].app_label)

\* The override a RULE_SEVERITY dict configures for a rule, or Unset.
Configured(rule_severity, rule_id) ==
    IF rule_id \in DOMAIN rule_severity THEN rule_severity[rule_id]
    ELSE Unset

\* The per-app override if one is configured, otherwise the global override
\* if one is configured, otherwise the built-in default.
ResolvedSeverity(rule_id, app_label) ==
    LET per_app == IF app_label \in DOMAIN settings.APP_RULES
                   THEN Configured(settings.APP_RULES[app_label].RULE_SEVERITY,
                                   rule_id)
                   ELSE Unset
        global == Configured(settings.RULE_SEVERITY, rule_id)
    IN  IF per_app # Unset THEN str_lower(per_app)
        ELSE IF global # Unset THEN str_lower(global)
        ELSE RuleSeverity(rule_id)

\* C5: every issue the analyzer returns carries the resolved severity of
\* its rule in its app: per-app override, else global override, else the
\* rule's default.
C5_ResolvedSeverity ==
    run.pc = "done"
        => \A n \in DOMAIN issues :
               issues[n].severity =
                   ResolvedSeverity(issues[n].rule_id, issues[n].app_label)

\* The column definition left by the migrations that migration depends on
\* for the column that op alters, or NoneRec when none of them adds it.
PriorField(migration, op) ==
    LET ancestors == { a \in Range(disk) : Key(a) \in migration.dependencies }
        adds == { x \in UNION { Range(a.operations) : a \in ancestors } :
                    /\ x.kind = "AddField"
                    /\ x.model_name = op.model_name
                    /\ x.name = op.name }
    IN  IF adds = {} THEN NoneRec ELSE (CHOOSE x \in adds : TRUE).field

\* C8: whenever a rule that reads prior state is called for an AlterField
\* of a migration whose ancestor added the column, the rule is given the
\* field the ancestor left as old_field.
C8_PriorStateSupplied ==
    \A c \in calls :
        LET migration == DiskMigration(disk, c.key)
            op == migration.operations[c.idx]
        IN  (/\ c.rule_id \in PriorStateRules
             /\ op.kind = "AlterField"
             /\ PriorField(migration, op) # NoneRec)
                => c.old_field = PriorField(migration, op)

\* C10: when a squashed migration and the migrations it replaces are all on
\* disk and none is applied, an entry point that analyses the app returns,
\* having evaluated the squashed migration and none of the replaced ones.
C10_SquashEvaluated ==
    (AnalysedTestapp /\ applied = {})
        => \A c \in { x \in Range(disk) : x.replaces # {} } :
               /\ run.pc = "done"
               /\ Key(c) \in Range(analysed)
               /\ \A k \in c.replaces : k \notin Range(analysed)

----------------------------------------------------------------------------
(* Claims about the graph-level check                                      *)

\* C11: when analyze_app or analyze_all has analysed testapp, the returned
\* list holds exactly one SM027 issue for testapp, the one check_graph
\* builds from its leaf migrations, if the app has two or more leaf
\* migrations, and none otherwise.
C11_OneMultipleHeadsIssue ==
    (/\ run.pc = "done"
     /\ \/ run.entry = "analyze_app" /\ run.arg = "testapp"
        \/ run.entry = "analyze_all")
        => LET reported == { n \in DOMAIN issues :
                               /\ issues[n].rule_id = "SM027"
                               /\ issues[n].app_label = "testapp" }
               expected == MissingMergeMigrationRule_check_graph(
                               "testapp", LeafMigrations("testapp"))
           IN  IF expected = NoneRec THEN reported = {}
               ELSE /\ Cardinality(reported) = 1
                    /\ \A n \in reported : issues[n] = expected

----------------------------------------------------------------------------
(* Claims about the order of the returned list                             *)

\* The position of an element in a sequence without repetitions.
IndexIn(s, e) == CHOOSE n \in DOMAIN s : s[n] = e

\* The migration on disk an issue is about, and the index of its operation:
\* in the projects of the model the operations of one migration have
\* different names.
IssueMigration(issue) ==
    DiskMigration(disk, <<issue.app_label, issue.migration_name>>)

IssueOperationIndex(issue) ==
    CHOOSE idx \in DOMAIN IssueMigration(issue).operations :
        format_operation_name(IssueMigration(issue).operations[idx])
            = issue.operation

\* x is a dependency of m in the graph: m names x, or names a migration
\* that x replaces.
DependsOn(m, x) ==
    \/ Key(x) \in m.dependencies
    \/ m.dependencies \cap x.replaces # {}

\* C12: in the returned list an issue of a later app label, of a dependency
\* of the other issue's migration, of an earlier operation of the same
\* migration, or of an earlier rule on the same operation never comes
\* second.
C12_IssueOrder ==
    run.pc = "done"
        => \A i, j \in DOMAIN issues :
               i < j =>
                   LET a == issues[i]
                       b == issues[j]
                   IN  /\ IndexIn(AppLabels, a.app_label)
                              <= IndexIn(AppLabels, b.app_label)
                       /\ a.app_label = b.app_label
                              => ~DependsOn(IssueMigration(a),
                                            IssueMigration(b))
                       /\ (/\ a.app_label = b.app_label
                           /\ a.migration_name = b.migration_name)
                              => /\ IssueOperationIndex(a)
                                        <= IssueOperationIndex(b)
                                 /\ a.operation = b.operation
                                        => IndexIn(analyzer.rules, a.rule_id)
                                             < IndexIn(analyzer.rules,
                                                       b.rule_id)

----------------------------------------------------------------------------
(* Claims about repeated runs                                              *)

----------------------------------------------------------------------------
(* SpecTotal: one rule checks one operation that Django would not build    *)

\* field, with the attribute attr of unexpected type
WithUnusual(field, attr) ==
    [x \in DOMAIN field \cup {"unusual"} |->
        IF x = "unusual" THEN attr ELSE field[x]]

\* CharFields whose max_length is a str, and CharFields whose has_default
\* attribute is not callable.
UnusualFields ==
    LET plain == { f \in Fields : /\ f.cls = "CharField"
                                  /\ f.db_default = NOT_PROVIDED
                                  /\ ~f.primary_key
                                  /\ ~f.unique }
    IN  { WithUnusual(f, "max_length") : f \in { g \in plain :
                                                   g.max_length # 0 } }
        \cup { WithUnusual(f, "has_default") : f \in plain }

\* The UnusualField of the tests: a truthy null, a default, a truthy unique
\* and no other attribute.
TestUnusualField ==
    [cls |-> "UnusualField", null |-> TRUE, default |-> "d1",
     db_default |-> NOT_PROVIDED, primary_key |-> FALSE, unique |-> TRUE,
     db_constraint |-> "absent", max_length |-> 0]

\* None, an object with no attribute at all, and AddField and AlterField
\* operations on unusual fields.
MalformedOps ==
    { [kind |-> "NoneType"], [kind |-> "MalformedOperation"] }
    \cup { Op(k, "user", "email", f) :
             k \in {"AddField", "AlterField"},
             f \in UnusualFields \cup {TestUnusualField} }

InitTotal ==
    /\ CommandIdle
    /\ operation \in MalformedOps
    /\ old_field \in IF operation.kind = "AlterField"
                     THEN { CharF(n, l) : n \in BOOLEAN, l \in 0..MaxLen }
                          \cup {NoneRec}
                     ELSE {NoneRec}
    /\ checked = NoneRec
    /\ settings = DEFAULTS
    /\ BaselineIdle
    /\ AnalyzerIdle

SpecTotal == InitTotal /\ [][NextRules]_vars

\* C14: whatever the operation and the prior field, the check of a rule
\* ends with an issue or with no issue, never with an exception.
C14_NeverRaises ==
    checked # NoneRec => ~IsRaised(checked.issue)

----------------------------------------------------------------------------
(* Claims about database vendors                                           *)

NoVendorMismatch(records) ==
    \A r \in records : applies_to_db(r.rule_id, analyzer.db_vendor)

\* C15 as stated: a rule whose vendor list excludes the analyzer's vendor
\* is never checked, never contributes an issue, and is never looked up in
\* the enable/disable configuration.
C15_Original ==
    analyzer # NoneRec
        => /\ NoVendorMismatch(calls)
           /\ NoVendorMismatch(Range(issues))
           /\ NoVendorMismatch(lookups)

\* C15: a rule whose vendor list excludes the analyzer's vendor is never
\* checked and never contributes an issue; when the analyzer built its own
\* rule list it is not looked up in the enable/disable configuration
\* either.
C15_VendorSkip ==
    analyzer # NoneRec
        => /\ NoVendorMismatch(calls)
           /\ NoVendorMismatch(Range(issues))
           /\ analyzer.rules = get_all_rules(analyzer.db_vendor)
                  => NoVendorMismatch(lookups)

\* A run of an analyzer given SM013 on sqlite has returned after looking
\* the rule up for an AlterField to a NOT NULL CharField and not calling it.
C15_Witness ==
    /\ run.pc = "done"
    /\ analyzer.db_vendor = "sqlite"
    /\ \E l \in lookups :
           /\ l.rule_id = "SM013"
           /\ DiskMigration(disk, l.key).operations[l.idx]
                  = Op("AlterField", "user", "email", CharF(FALSE, MaxLen))
           /\ \A c \in calls : ~(c.key = l.key /\ c.rule_id = "SM013")

----------------------------------------------------------------------------
(* Claims about the fields of an issue                                     *)

\* The rule id, severity, message and app label of an issue are populated.
Populated(issue) ==
    /\ issue.rule_id # None
    /\ issue.severity \in Severities
    /\ issue.message # None
    /\ issue.app_label # None

GraphIssues == IF checked = NoneRec THEN {} ELSE {checked.issue} \ {NoneRec}

----------------------------------------------------------------------------
(* Claims about the source-location lookup                                 *)

\* C17: when the file of a migration cannot be imported, is missing, cannot
\* be read or decoded, or has no operations list, analyze_migration does
\* not raise, and the issues it collects have no line number.
C17_LookupAdvisory ==
    /\ (run.pc \in {"rules", "raised"} /\ run.cur # NoneRec
            /\ run.cur.file # "ok")
           => run.pc # "raised"
    /\ \A issue \in Range(issues) :
           \A x \in Range(disk) :
               (Key(x) = <<issue.app_label, issue.migration_name>>
                    /\ x.file # "ok")
                   => issue.line_number = 0

----------------------------------------------------------------------------
(* Claims about the configuration of one run                               *)

\* C18: every rule a run evaluates is enabled, and every issue it collects
\* has the severity resolved, under the settings the entry point was called
\* under, whatever the settings become while it runs.
C18_Snapshot ==
    run.pc \in {"rules", "loop", "done"} =>
        /\ \A c \in calls :
               ~MigrationAnalyzer_is_rule_disabled(analyzer, run.snapshot,
                                                   c.rule_id)
        /\ \A issue \in Range(issues) :
               issue.severity = get_rule_severity(run.snapshot,
                                                  issue.rule_id,
                                                  RuleSeverity(issue.rule_id))

----------------------------------------------------------------------------
(* Claims about severity overrides that cannot be parsed                   *)

\* The configuration has, globally or for the app, an override for the rule
\* that is neither a value nor a name of Severity.
UnparseableOverride(st, rule_id, app_label) ==
    /\ rule_id \in ConfRules
    /\ \/ /\ get_config(st).RULE_SEVERITY[rule_id] # Unset
          /\ ParseSeverity(get_config(st).RULE_SEVERITY[rule_id]) = Unset
       \/ /\ app_label \in ConfApps
          /\ get_app_config(st, app_label).RULE_SEVERITY[rule_id] # Unset
          /\ ParseSeverity(
                 get_app_config(st, app_label).RULE_SEVERITY[rule_id]) = Unset

\* C19: a run never collects an issue of a rule whose configured severity
\* override, global or for the app, cannot be parsed (the run has aborted
\* with a configuration error instead).
C19_BadSeverityAborts ==
    \A issue \in Range(issues) :
        ~UnparseableOverride(settings, issue.rule_id, issue.app_label)

----------------------------------------------------------------------------
(* Claims about the operation signature                                    *)

\* C20: the operation signature of a reported issue is that of the
\* operation whatever the migration is named, and no operation with another
\* content (another kind, model, column or column definition) has the same
\* signature.
C20_SignatureFollowsContent ==
    (checked # NoneRec /\ checked.issue # NoneRec)
        => /\ \A name \in Range(MigrationNames) :
                  create_issue(checked.rule_id, checked.issue.severity,
                               operation, checked.issue.message,
                               Mig("testapp", name)).operation
                      = checked.issue.operation
           /\ \A other \in RuleOps :
                  other # operation
                      => format_operation_name(other)
                             # checked.issue.operation

----------------------------------------------------------------------------
(* Claims about an explicit rule list                                      *)

\* C30: an analyzer constructed with an explicit rule list, of any length
\* including zero, evaluates only rules of that list, and every issue it
\* collects has the rule id of a rule of that list.
C30_OnlySuppliedRules ==
    (analyzer # NoneRec /\ analyzer.given # NoneRec)
        => /\ \A c \in calls : c.rule_id \in Range(analyzer.given.some)
           /\ \A issue \in Range(issues) :
                  issue.rule_id \in Range(analyzer.given.some)

----------------------------------------------------------------------------
(* Claims about analyze_new_migrations                                     *)

\* The keys analyze_new_migrations is to analyse: on disk, not applied, and
\* of the given app when one is given.
SelectedNew(app_label) ==
    { k \in Range(disk_migrations_keys(disk)) :
        k \notin applied /\ (app_label = None \/ k[1] = app_label) }

\* C27: when analyze_new_migrations ends, it has analysed every on-disk
\* migration that is not applied and belongs to the selected apps, each
\* once, and no other; every issue comes from one of them.
C27_ExactlyUnapplied ==
    (run.pc \in {"done", "raised"} /\ run.entry = "analyze_new_migrations")
        => /\ Range(analysed) = SelectedNew(run.arg)
           /\ Len(analysed) = Cardinality(SelectedNew(run.arg))
           /\ \A issue \in Range(issues) :
                  <<issue.app_label, issue.migration_name>>
                      \in SelectedNew(run.arg)

----------------------------------------------------------------------------
(* Claims about SM004 with a known prior field                             *)

\* The field type, max_length or unique differs, or a nullable column
\* becomes non-nullable.
SchemaChange(old, new) ==
    \/ old.cls # new.cls
    \/ old.max_length # new.max_length
    \/ old.unique # new.unique
    \/ old.null /\ ~new.null

\* C24: given the prior field, SM004 reports an AlterField whenever the
\* field type, max_length or unique changes or a nullable column becomes
\* non-nullable, and reports nothing otherwise (null relaxed, default
\* changed).
C24_ReportsSchemaChange ==
    (CheckedBy("SM004") /\ operation.kind = "AlterField"
         /\ old_field # NoneRec)
        => ((checked.issue # NoneRec)
                <=> SchemaChange(old_field, operation.field))

----------------------------------------------------------------------------
(* Claims about SM013 with a known prior field                             *)

\* SM013 has checked an AlterField to a CharField with a max_length, given
\* a prior CharField with a max_length.
CheckedLengths ==
    /\ CheckedBy("SM013")
    /\ operation.kind = "AlterField"
    /\ old_field # NoneRec
    /\ old_field.cls = "CharField" /\ old_field.max_length # 0
    /\ operation.field.cls = "CharField" /\ operation.field.max_length # 0

\* C26: given a prior CharField with max_length m, SM013 reports an
\* AlterField to a CharField with max_length n if and only if n < m; given
\* a prior field that is not a CharField it reports nothing.
C26_ReportsDecrease ==
    /\ CheckedLengths
           => ((checked.issue # NoneRec)
                   <=> operation.field.max_length < old_field.max_length)
    /\ (CheckedBy("SM013") /\ old_field # NoneRec
            /\ old_field.cls # "CharField")
           => checked.issue = NoneRec

\* SM013 has reported the decrease of a max_length.
C26_Witness ==
    /\ CheckedLengths
    /\ operation.field.max_length < old_field.max_length
    /\ checked.issue # NoneRec
    /\ checked.issue.rule_id = "SM013"

----------------------------------------------------------------------------
(* interactive.py: the interactive review                                  *)

\* Longest issue list put under review.
MaxReview == 3

\* The issues of the sample list of the unit tests.
SampleIssues ==
    { MakeIssue("SM001", "error", "myapp", "0002_add_email",
                "AddField(user.email)"),
      MakeIssue("SM002", "warning", "myapp", "0003_remove_old",
                "RemoveField(user.old_field)"),
      MakeIssue("SM010", "error", "otherapp", "0001_initial",
                "AddIndex(user_email_idx)") }

\* What input() gives: a line of text, or an exception.
Inputs ==
    { [text |-> t] : t \in {"k", "s", "f", "q", "x", "K", " s ", ""} }
    \cup { Raised("EOFError"), Raised("KeyboardInterrupt") }

\* text.strip().lower()
strip_lower(text) ==
    CASE text = "K" -> "k"
      [] text = " s " -> "s"
      [] OTHER -> text

\* The review after "for idx, issue in enumerate(issues, 1)" has taken the
\* next issue, or after the loop has ended: idx counts from 1.
Advance(r, issue_list) ==
    IF r.idx < Len(issue_list) THEN [r EXCEPT !.idx = @ + 1]
    ELSE [r EXCEPT !.pc = "returned"]

ReviewAnswer_QuitDropsCurrent(r, issue_list, raw) ==
    LET choice == IF IsRaised(raw) THEN "" ELSE strip_lower(raw.text)
        said == [r EXCEPT !.last = raw]
    IN  IF IsRaised(raw) \/ choice = "q"
        THEN [said EXCEPT
                !.pc = "returned",
                !.kept = @ \o SubSeq(issue_list, r.idx + 1, Len(issue_list)),
                !.ended = r.idx]
        ELSE IF choice = "k"
        THEN Advance([said EXCEPT !.kept = Append(@, issue_list[r.idx]),
                                  !.answers[r.idx] = "k"], issue_list)
        ELSE IF choice = "s"
        THEN Advance([said EXCEPT !.answers[r.idx] = "s"], issue_list)
        ELSE said

ReviewAnswer_FixDecides(r, issue_list, raw) ==
    LET choice == IF IsRaised(raw) THEN "" ELSE strip_lower(raw.text)
        said == [r EXCEPT !.last = raw]
    IN  IF IsRaised(raw) \/ choice = "q"
        THEN [said EXCEPT
                !.pc = "returned",
                !.kept = @ \o SubSeq(issue_list, r.idx, Len(issue_list)),
                !.ended = r.idx]
        ELSE IF choice = "k"
        THEN Advance([said EXCEPT !.kept = Append(@, issue_list[r.idx]),
                                  !.answers[r.idx] = "k"], issue_list)
        ELSE IF choice = "s"
        THEN Advance([said EXCEPT !.answers[r.idx] = "s"], issue_list)
        ELSE IF choice = "f" THEN Advance(said, issue_list)
        ELSE said

\* One pass of the "while True" loop of review_issues_interactively: what
\* the review becomes when input() gives raw.  answers keeps the decision
\* taken for each issue, ended the index at which the review was ended, last
\* what input() gave last.
ReviewAnswer(r, issue_list, raw) ==
    LET choice == IF IsRaised(raw) THEN "" ELSE strip_lower(raw.text)
        said == [r EXCEPT !.last = raw]
    IN  IF IsRaised(raw) \/ choice = "q"
        THEN [said EXCEPT
                !.pc = "returned",
                !.kept = @ \o SubSeq(issue_list, r.idx, Len(issue_list)),
                !.ended = r.idx]
        ELSE IF choice = "k"
        THEN Advance([said EXCEPT !.kept = Append(@, issue_list[r.idx]),
                                  !.answers[r.idx] = "k"], issue_list)
        ELSE IF choice = "s"
        THEN Advance([said EXCEPT !.answers[r.idx] = "s"], issue_list)
        ELSE said

\* review_issues_interactively(issue_list) up to its first prompt: an empty
\* list is returned at once.
ReviewStart(issue_list) ==
    [pc |-> IF issue_list = <<>> THEN "returned" ELSE "prompt",
     idx |-> IF issue_list = <<>> THEN 0 ELSE 1,
     kept |-> <<>>,
     answers |-> [n \in DOMAIN issue_list |-> "none"],
     ended |-> 0,
     last |-> NoneRec]

\* The issue lists put under review: up to MaxReview different issues of
\* the sample, in any order.
ReviewLists ==
    { s \in UNION { [1..n -> SampleIssues] : n \in 0..MaxReview } :
        \A i, j \in DOMAIN s : s[i] = s[j] => i = j }

StartReview ==
    /\ review.pc = "idle"
    /\ review' = ReviewStart(issues)
    /\ UNCHANGED <<cmd, rulesVars, settings, baseVars, anVars>>

Answer(raw) ==
    /\ review.pc = "prompt"
    /\ review' = ReviewAnswer(review, issues, raw)
    /\ UNCHANGED <<cmd, rulesVars, settings, baseVars, anVars>>

InitReview ==
    /\ issues \in ReviewLists
    /\ review = [pc |-> "idle"]
    /\ cmd = [pc |-> "idle"]
    /\ baseline_file = [version |-> 0]
    /\ baseline = <<>>
    /\ filtered = <<>>
    /\ bpc = [at |-> "start", origin |-> "none"]
    /\ settings = DEFAULTS
    /\ RulesIdle
    /\ AnalyzerIdle

NextReview ==
    \/ StartReview
    \/ \E raw \in Inputs : Answer(raw)

SpecReview == InitReview /\ [][NextReview]_vars

----------------------------------------------------------------------------
(* Claims about the interactive review                                     *)

\* The issues among the first limit ones that were answered "k", in the
\* order of the list.
RECURSIVE KeptUpTo(_)
KeptUpTo(limit) ==
    IF limit = 0 THEN <<>>
    ELSE IF review.answers[limit] = "k"
    THEN Append(KeptUpTo(limit - 1), issues[limit])
    ELSE KeptUpTo(limit - 1)

\* C23: the review returns the issues answered "k" in their original order,
\* followed, when it was ended at issue i by "q", end of input or keyboard
\* interrupt, by issue i and every later issue; an issue answered "s" is
\* not in the result and no issue is in it twice.
C23_ReviewResult ==
    review.pc = "returned" =>
        /\ review.kept =
               IF review.ended = 0 THEN KeptUpTo(Len(issues))
               ELSE KeptUpTo(review.ended - 1)
                        \o SubSeq(issues, review.ended, Len(issues))
        /\ \A i \in DOMAIN issues :
               review.answers[i] = "s" => issues[i] \notin Range(review.kept)
        /\ \A i, j \in DOMAIN review.kept :
               review.kept[i] = review.kept[j] => i = j

\* The first issue was skipped, the second kept, and the review was ended
\* at the third.
C23_Witness ==
    /\ review.pc = "returned"
    /\ Len(issues) = 3
    /\ review.answers = <<"s", "k", "none">>
    /\ review.ended = 3
    /\ review.kept = <<issues[2], issues[3]>>

\* input() gave a line that is none of "k", "s" and "q": "f", or an
\* unrecognised answer.
AskedAgain(raw) ==
    ~IsRaised(raw) /\ strip_lower(raw.text) \notin {"k", "s", "q"}

\* While the review prompts, it was not ended, the issues before the
\* current one are decided and the current and later ones are not.
PromptPosition ==
    review.pc = "prompt" =>
        /\ review.ended = 0
        /\ \A i \in DOMAIN issues :
               (review.answers[i] \in {"k", "s"}) <=> (i < review.idx)

\* One answer: "f" or an unrecognised answer changes neither the current
\* issue nor the kept list and the review prompts again; a decision, once
\* taken, stays; and the review has returned exactly when it was ended or
\* every issue is decided.
AnswerStep ==
    (review.pc = "prompt" /\ review' # review)
        => /\ AskedAgain(review'.last)
                  => /\ review'.pc = "prompt"
                     /\ review'.idx = review.idx
                     /\ review'.kept = review.kept
                     /\ review'.answers = review.answers
           /\ \A i \in DOMAIN issues :
                  review.answers[i] # "none"
                      => review'.answers[i] = review.answers[i]
           /\ (review'.pc = "returned")
                  <=> \/ review'.ended # 0
                      \/ \A i \in DOMAIN issues :
                             review'.answers[i] \in {"k", "s"}

\* C29: an "f" answer or an unrecognised answer leaves the current issue
\* and the kept list unchanged and the review prompts again for the same
\* issue; the review ends as soon as every issue has one "k" or "s" answer,
\* or at the first "q", end of input or keyboard interrupt; each issue is
\* decided at most once.
C29_Reprompt == []PromptPosition /\ [][AnswerStep]_vars

\* After the first issue was kept, "f" was answered at the second one and
\* the review prompts for the second one again.
C29_Witness ==
    /\ review.pc = "prompt"
    /\ review.last = [text |-> "f"]
    /\ review.idx = 2
    /\ review.kept = <<issues[1]>>

----------------------------------------------------------------------------
(* rules/run_sql.py: SM012                                                 *)

\* Most words of the SQL of a RunSQL operation.
MaxSql == 5

\* SQL text is a sequence of words separated by white space.
SqlWords == {"ALTER", "type", "mood", "add", "value"}

\* word.lower()
sql_lower(word) == IF word = "ALTER" THEN "alter" ELSE word

\* " ".join(str(s) for s in sql) for a list of statements, str(sql) for one.
JoinStatements(sql) ==
    IF "statements" \in DOMAIN sql
    THEN IF Len(sql.statements) = 0 THEN <<>>
         ELSE IF Len(sql.statements) = 1 THEN sql.statements[1]
         ELSE sql.statements[1] \o sql.statements[2]
    ELSE sql.text

\* re.search(r"ALTER\s+TYPE\s+\w+\s+ADD\s+VALUE", sql_lower, re.IGNORECASE)
SearchAlterTypeAddValue(words) ==
    \E i \in 1..(Len(words) - 4) :
        /\ sql_lower(words[i]) = "alter"
        /\ sql_lower(words[i + 1]) = "type"
        /\ sql_lower(words[i + 3]) = "add"
        /\ sql_lower(words[i + 4]) = "value"

\* re.search(r"add\s+value", sql_lower, re.IGNORECASE)
SearchAddValue(words) ==
    \E i \in 1..(Len(words) - 1) :
        /\ sql_lower(words[i]) = "add"
        /\ sql_lower(words[i + 1]) = "value"

\* getattr(migration, "atomic", True)
is_atomic(migration) ==
    IF "atomic" \in DOMAIN migration THEN migration.atomic ELSE TRUE

\* EnumAddValueInTransactionRule.check: the first pattern of
\* ENUM_ADD_PATTERNS that is found decides when the migration is atomic;
\* when it is not, no pattern yields an issue.
EnumAddValueInTransactionRule_check(op, migration) ==
    IF op.kind # "RunSQL" THEN NoneRec
    ELSE IF /\ \/ SearchAlterTypeAddValue(JoinStatements(op.sql))
               \/ SearchAddValue(JoinStatements(op.sql))
            /\ is_atomic(migration)
    THEN create_issue("SM012", "error", op, "enum-add-in-transaction",
                      migration)
    ELSE NoneRec

\* The operations handed to SM012: RunSQL with one SQL string or with a
\* list of two statements, and an operation that is not a RunSQL.
SqlOps ==
    LET texts == UNION { [1..n -> SqlWords] : n \in 0..MaxSql }
    IN  { [kind |-> "RunSQL", sql |-> [text |-> t]] : t \in texts }
        \cup { [kind |-> "RunSQL",
                sql |-> [statements |->
                            <<SubSeq(t, 1, Len(t) \div 2),
                              SubSeq(t, Len(t) \div 2 + 1, Len(t))>>]] :
                 t \in texts }
        \cup { Op("AddField", "user", "email", NoField) }

\* The migrations handed to SM012: atomic unspecified, True or False.
SqlMigrations ==
    { Mig("testapp", "0002_change") }
    \cup { [app_label |-> "testapp", name |-> "0002_change", atomic |-> a] :
             a \in BOOLEAN }

InitSql ==
    /\ CommandIdle
    /\ operation \in SqlOps
    /\ old_field = NoneRec
    /\ checked = NoneRec
    /\ settings = DEFAULTS
    /\ BaselineIdle
    /\ AnalyzerIdle

CheckSql(migration) ==
    /\ checked = NoneRec
    /\ checked' = [rule_id |-> "SM012", migration |-> migration,
                   issue |-> EnumAddValueInTransactionRule_check(operation,
                                                                 migration)]
    /\ UNCHANGED <<operation, old_field, settings, baseVars, anVars, cmdVars>>

NextSql == \E migration \in SqlMigrations : CheckSql(migration)

SpecSql == InitSql /\ [][NextSql]_vars

----------------------------------------------------------------------------
(* Claims about SM012                                                      *)

\* C25: SM012 reports a RunSQL operation if and only if its SQL contains an
\* ALTER TYPE <name> ADD VALUE statement and the migration is atomic (also
\* when atomic is unspecified); the words "add value" outside an ALTER TYPE
\* statement are not reported, and nothing is reported in a non-atomic
\* migration.
C25_EnumAddIff ==
    (checked # NoneRec /\ checked.rule_id = "SM012")
        => ((checked.issue # NoneRec)
                <=> /\ operation.kind = "RunSQL"
                    /\ SearchAlterTypeAddValue(JoinStatements(operation.sql))
                    /\ is_atomic(checked.migration))

----------------------------------------------------------------------------
(* Claims about the identity key of an issue                               *)

\* (rule_id, app_label, migration_name, operation): the key that
\* filter_baselined_issues compares and the GitLab fingerprint is made of.
IdentityKey(issue) ==
    <<issue.rule_id, issue.app_label, issue.migration_name, issue.operation>>

\* C28: within one analysis result no two issues, of different operations
\* or of different rules, have the same identity key.
C28_DistinctKeys ==
    \A i, j \in DOMAIN issues :
        IdentityKey(issues[i]) = IdentityKey(issues[j]) => i = j

----------------------------------------------------------------------------
(* cli.py and management/commands/check_migrations.py: the commands        *)

\* django_apps of both commands
DjangoApps ==
    {"admin", "auth", "contenttypes", "sessions", "messages", "staticfiles"}

\* The command lines: the program (main of cli.py, or handle of the
\* management command), the app labels, --new-only, --exclude-apps,
\* --include-django-apps and --fail-on-warning.
Commands ==
    [program : {"main", "handle"},
     app_labels : {<<>>, <<"testapp">>, <<"otherapp", "testapp">>},
     new_only : BOOLEAN,
     exclude_apps : {{}, {"otherapp"}},
     include_django_apps : BOOLEAN,
     fail_on_warning : BOOLEAN]

\* "Build exclude list"
BuildExcludeApps(options) ==
    IF ~options.include_django_apps
    THEN options.exclude_apps \cup DjangoApps
    ELSE options.exclude_apps

\* "Collect issues": the entry points handle calls, in order.
CollectCalls(options) ==
    IF options.new_only
    THEN IF options.app_labels # <<>>
         THEN [n \in DOMAIN options.app_labels |->
                  [entry |-> "analyze_new_migrations",
                   arg |-> options.app_labels[n]]]
         ELSE <<[entry |-> "analyze_new_migrations", arg |-> None]>>
    ELSE IF options.app_labels # <<>>
    THEN [n \in DOMAIN options.app_labels |->
             [entry |-> "analyze_app", arg |-> options.app_labels[n]]]
    ELSE <<[entry |-> "analyze_all", arg |-> None]>>

\* "Determine exit code"
ExitStatus(issue_list, fail_on_warning) ==
    IF \E n \in DOMAIN issue_list : issue_list[n].severity = "error" THEN 1
    ELSE IF /\ \E n \in DOMAIN issue_list :
                   issue_list[n].severity = "warning"
            /\ fail_on_warning
    THEN 1
    ELSE 0

\* The command up to its first call of the analyzer.  handle builds the
\* exclude list and constructs MigrationAnalyzer(); main constructs
\* MigrationAnalyzer(verbose=args.verbose), a keyword __init__ does not
\* take: the TypeError leaves main and the interpreter exits with status 1.
CmdStart ==
    /\ cmd.pc = "start"
    /\ IF cmd.options.program = "main"
       THEN /\ cmd' = [cmd EXCEPT !.pc = "exited", !.status = 1,
                                  !.error = "TypeError"]
            /\ analyzer' = analyzer
       ELSE /\ cmd' = [cmd EXCEPT
                         !.pc = "collect",
                         !.exclude_apps = BuildExcludeApps(cmd.options),
                         !.todo = CollectCalls(cmd.options)]
            /\ analyzer' = MigrationAnalyzer(NoneRec, "postgresql", NoneRec)
    /\ UNCHANGED <<review, disk, applied, run, calls, lookups, analysed,
                   settings, rulesVars, baseVars>>

\* handle calls the next entry point; an explicit app label that is
\* excluded is passed over.
CmdCall ==
    /\ cmd.pc = "collect"
    /\ cmd.todo # <<>>
    /\ run.pc \in {"idle", "done"}
    /\ cmd' = [cmd EXCEPT !.todo = Tail(@)]
    /\ LET c == Head(cmd.todo)
       IN  run' = IF c.entry = "analyze_new_migrations"
                  THEN Frame(c.entry, c.arg, <<>>,
                             disk_migrations_keys(disk))
                  ELSE IF c.entry = "analyze_app"
                  THEN IF c.arg \in cmd.exclude_apps THEN run
                       ELSE EnterApp(Frame(c.entry, c.arg, <<>>, <<>>),
                                     c.arg)
                  ELSE [Frame(c.entry, c.arg,
                              SelectSeq(AppLabels,
                                        LAMBDA a : \E x \in Range(disk) :
                                                       x.app_label = a),
                              <<>>)
                          EXCEPT !.exclude_apps = Some(cmd.exclude_apps)]
    /\ UNCHANGED <<review, disk, applied, analyzer, calls, lookups,
                   analysed, settings, rulesVars, baseVars>>

\* reporter.report(issues), then sys.exit(1) or a normal return.
CmdExit ==
    /\ cmd.pc = "collect"
    /\ cmd.todo = <<>>
    /\ run.pc \in {"idle", "done"}
    /\ cmd' = [cmd EXCEPT
                 !.pc = "exited",
                 !.status = ExitStatus(issues, cmd.options.fail_on_warning)]
    /\ UNCHANGED <<review, anVars, settings, rulesVars, baseVars>>

\* An exception of the analyzer leaves handle: the interpreter exits with
\* status 1 and nothing is reported.
CmdRaised ==
    /\ cmd.pc = "collect"
    /\ run.pc = "raised"
    /\ cmd' = [cmd EXCEPT !.pc = "exited", !.status = 1,
                          !.error = "KeyError"]
    /\ UNCHANGED <<review, anVars, settings, rulesVars, baseVars>>

InitCommand ==
    /\ disk \in Disks
    /\ applied \in AppliedSets(disk)
    /\ settings = DEFAULTS
    /\ analyzer = NoneRec
    /\ run = [pc |-> "idle"]
    /\ calls = {}
    /\ lookups = {}
    /\ analysed = <<>>
    /\ review = [pc |-> "idle"]
    /\ cmd \in { [pc |-> "start", options |-> o, exclude_apps |-> {},
                  todo |-> <<>>, status |-> -1, error |-> None] :
                   o \in Commands }
    /\ RulesIdle
    /\ BaselineIdle

NextCommand ==
    \/ CmdStart
    \/ CmdCall
    \/ NextApp
    \/ NextMigration
    \/ RuleStep
    \/ Return
    \/ CmdExit
    \/ CmdRaised

SpecCommand == InitCommand /\ [][NextCommand]_vars

----------------------------------------------------------------------------
(* Claims about the commands                                               *)

\* C21: a reporting run of a command exits with status 1 if and only if the
\* final issue list holds an error, or holds a warning while
\* --fail-on-warning is set; otherwise it exits with status 0.
C21_ExitStatus ==
    cmd.pc = "exited" =>
        /\ cmd.status \in {0, 1}
        /\ (cmd.status = 1)
               <=> \/ \E n \in DOMAIN issues : issues[n].severity = "error"
                   \/ /\ \E n \in DOMAIN issues :
                             issues[n].severity = "warning"
                      /\ cmd.options.fail_on_warning

\* C22: no issue of the final list has an app label of the effective
\* exclude list: the --exclude-apps values and, without
\* --include-django-apps, Django's built-in apps.
C22_NoExcludedApp ==
    cmd.pc = "exited" =>
        \A n \in DOMAIN issues :
            issues[n].app_label \notin
                (cmd.options.exclude_apps
                     \cup IF cmd.options.include_django_apps THEN {}
                          ELSE DjangoApps)

====
